---------------------------- MODULE Spec2Model ----------------------------
(***************************************************************************)
(* State-machine model of hft_core: ThreadPool and HighPriorityThreadPool  *)
(* (include/hft_core/ThreadPool.hpp), MemoryPool and LockFreeMemoryPool    *)
(* (include/hft_core/MemoryPool.hpp), EventBus (include/hft_core/          *)
(* EventBus.hpp) and Config (include/hft_core/Config.hpp).  Every          *)
(* component has its own specification; the variables of the other         *)
(* components stay at their initial values under it.                       *)
(***************************************************************************)
EXTENDS Integers, Sequences, FiniteSets, TLC

(***************************************************************************)
(* Bounds of the model.                                                    *)
(***************************************************************************)
NWorkers == 2
NProducers == 2
MaxEnqueues == 2

LFThreads == 2
LFInitialSize == 1
LFMaxNew == 1
LFMaxHeld == 2

EBClients == 2
MaxPublish == 2
EBTypes == 2
MaxSubscribe == 2
MaxLost == 1

MPObjectsPerBlock == 2
MPMaxBlocks == 2
MPMaxMisuse == 1

HPMaxCores == 2
HPMaxTasks == 2

CfgMaxInt == 2
CfgMaxTenths == 5

NoOne == <<"none", 0>>
Workers == 1..NWorkers
Producers == 1..NProducers
TaskIds == 1..MaxEnqueues
Outcomes == {"value", "failure"}

LFMaxNodes == LFInitialSize + LFMaxNew
Threads == 1..LFThreads
Nodes == 1..LFMaxNodes
Null == 0

Clients == 1..EBClients
Owner == CHOOSE c \in Clients : \A x \in Clients : c <= x
Dispatcher == <<"d", 0>>
Client(c) == <<"c", c>>
EBThreads == {Dispatcher} \cup {Client(c) : c \in Clients}
Types == 1..EBTypes
NoType == 0
\* What a call of a handler can do: return, raise a failure derived from
\* std::exception, or raise any other object.
HandlerOutcomes == {"returns", "std_exception", "other_exception"}

VARIABLES
    \* ---- ThreadPool ----
    tp_stop,        \* stop_
    tp_tasks,       \* tasks_ : FIFO of task ids
    tp_mutex,       \* queue_mutex_ : its holder, or NoOne
    tp_waiting,     \* workers blocked inside condition_.wait
    tp_wpc,         \* position of every worker in its loop
    tp_wtask,       \* the local `task` of every worker (0: none)
    tp_ppc,         \* position of every producer inside enqueue()
    tp_pafter,      \* was stop_ already stored when the call in progress began
    tp_calls,       \* number of enqueue() calls begun so far
    tp_accepted,    \* number of tasks appended so far (task ids are 1..tp_accepted)
    tp_dequeued,    \* task ids in the order workers took them from tasks_
    tp_future,      \* shared state of every task's future
    tp_execs,       \* how many times every task's callable was invoked
    tp_wfailed,     \* has the worker run a callable that raised
    tp_atStop,      \* tasks_ as it was when the destructor stored stop_
    tp_dpc,         \* position of the destructor
    tp_joined,      \* number of workers the destructor has joined
    \* ---- LockFreeMemoryPool ----
    lf_head,        \* head_ (Null: nullptr)
    lf_next,        \* Node::next of every node
    lf_created,     \* nodes made by `new Node` so far (the nodes are 1..lf_created)
    lf_pc,          \* position of every thread inside allocate() / deallocate()
    lf_old_head,    \* the local old_head of every thread
    lf_arg,         \* old_head->next.load() as evaluated for the pending CAS
    lf_node,        \* the local node of every thread inside deallocate()
    lf_held,        \* per thread and node: allocations of the node the thread holds
    \* ---- EventBus ----
    eb_async,       \* async_mode_
    eb_shutdown,    \* shutdown_requested_
    eb_queue,       \* event_queue_ : FIFO of event ids
    eb_mutex,       \* queue_mutex_ : its holder, or NoOne
    eb_cv,          \* threads blocked inside queue_cv_.wait
    eb_joinable,    \* worker_thread_.joinable()
    eb_dpc,         \* position of the dispatcher thread in worker_loop ("none": no thread)
    eb_devent,      \* the event the dispatcher has popped and is dispatching (0: none)
    eb_cpc,         \* position of every client thread inside its current call
    eb_calls,       \* number of publish() calls begun so far
    eb_pushed,      \* number of events appended so far (event ids are 1..eb_pushed)
    eb_mine,        \* per client: the events it has appended to the queue
    eb_done,        \* events whose dispatch has finished, in that order
    eb_handlers,    \* handlers_ : per type the handler list (<<>>: no entry)
    eb_hreaders,    \* threads holding handlers_mutex_ shared
    eb_hwriter,     \* the thread holding handlers_mutex_ exclusively, or NoOne
    eb_subs,        \* number of subscribe() calls begun so far (handlers are 1..eb_subs)
    eb_etype,       \* Event::type_id of every event that is queued or being dispatched
    eb_ptype,       \* per client: the EventType of the call in progress
    eb_harg,        \* per client: the handler made by the subscribe() in progress
    eb_di,          \* per thread: position in the handler list it is running
    eb_ran,         \* per thread: handlers invoked so far in the dispatch in progress
    eb_atShutdown   \* events in event_queue_ when the shutdown() in progress was called

tpvars == <<tp_stop, tp_tasks, tp_mutex, tp_waiting, tp_wpc, tp_wtask, tp_ppc,
            tp_pafter, tp_calls, tp_accepted, tp_dequeued,
            tp_future, tp_execs, tp_wfailed, tp_atStop, tp_dpc, tp_joined>>

lfvars == <<lf_head, lf_next, lf_created, lf_pc, lf_old_head, lf_arg, lf_node,
            lf_held>>

ebvars == <<eb_async, eb_shutdown, eb_queue, eb_mutex, eb_cv, eb_joinable,
            eb_dpc, eb_devent, eb_cpc, eb_calls, eb_pushed, eb_mine, eb_done>>

ebregvars == <<eb_handlers, eb_hreaders, eb_hwriter, eb_subs, eb_etype, eb_ptype,
               eb_harg, eb_di, eb_ran, eb_atShutdown>>

VARIABLES
    eb_lost         \* threads running worker_loop whose std::thread handle was overwritten

VARIABLES
    mp_blocks,      \* blocks_.size()
    mp_free,        \* free_list_, back of the vector last
    mp_live,        \* slots handed to the caller and not given back since
    mp_misused,     \* number of deallocate()/destroy() calls given a pointer that was not live
    mp_pc,          \* "constructing" between the two halves of construct()
    mp_ptr,         \* the slot construct() is building the object in
    mp_last         \* the last call begun: <<operation, how it ended>>

mpvars == <<mp_blocks, mp_free, mp_live, mp_misused, mp_pc, mp_ptr, mp_last>>

VARIABLES
    hp_cores,       \* what std::thread::hardware_concurrency() reports ({}: not asked yet)
    hp_wpc,         \* position of every worker thread of the HighPriorityThreadPool
    hp_sched,       \* per worker: what came of the scheduling requests
    hp_cpu,         \* per worker: the core it is pinned to ({}: none)
    hp_mutex,       \* holder of queue_mutex_, or NoOne
    hp_waiting,     \* workers blocked in condition_.wait
    hp_queue,       \* number of tasks in high_priority_tasks_
    hp_submitted,   \* number of enqueue_high_priority() calls that returned a future
    hp_done         \* number of tasks run to their end

hpvars == <<hp_cores, hp_wpc, hp_sched, hp_cpu, hp_mutex, hp_waiting, hp_queue,
            hp_submitted, hp_done>>

VARIABLES
    cfg_map,        \* config_map_ of the process that saves
    cfg_file,       \* the lines of the file
    cfg_saved,      \* config_map_ as it was when the file was written
    cfg_loaded,     \* config_map_ of the process that loads into an empty store
    cfg_state       \* "nofile", "saved" or "loaded"

cfgvars == <<cfg_map, cfg_file, cfg_saved, cfg_loaded, cfg_state>>

vars == <<tpvars, lfvars, ebvars, ebregvars, eb_lost, mpvars, hpvars, cfgvars>>

NotTP == <<lfvars, ebvars, ebregvars, eb_lost, mpvars, hpvars, cfgvars>>
NotLF == <<tpvars, ebvars, ebregvars, eb_lost, mpvars, hpvars, cfgvars>>
NotBus == <<tpvars, lfvars, mpvars, hpvars, cfgvars>>
\* A handle is overwritten only where two threads call set_async_mode(): no
\* other step of the bus changes eb_lost.
NotEB == <<NotBus, eb_lost>>
NotMP == <<tpvars, lfvars, ebvars, ebregvars, eb_lost, hpvars, cfgvars>>
NotHP == <<tpvars, lfvars, ebvars, ebregvars, eb_lost, mpvars, cfgvars>>
NotCfg == <<tpvars, lfvars, ebvars, ebregvars, eb_lost, mpvars, hpvars>>

(***************************************************************************)
(* ThreadPool                                                              *)
(***************************************************************************)

\* std::condition_variable::notify_one: the sets of waiters it may unblock.
NotifyNobody(waiters) == {{}}

NotifyOne(waiters) ==
    IF waiters = {} THEN {{}} ELSE {{w} : w \in waiters}

\* std::condition_variable::notify_all.
NotifyAll(waiters) == {waiters}

\* The predicate of condition_.wait (line 35).
WaitPredicate == tp_stop \/ tp_tasks # <<>>

\* The exit test of the worker loop (line 38).
ExitOnStopOnly == tp_stop

WorkerExits == tp_stop /\ tp_tasks = <<>>

\* tasks_.front() (line 42) and tasks_.pop() (line 43).
BackOf(q) == q[Len(q)]

FrontOf(q) == Head(q)

PopKeeps(q) == q

PopOf(q) == Tail(q)

\* The stop_ test of enqueue (line 67).
NeverRejected == FALSE

EnqueueRejected == tp_stop

\* (*task)() of the std::packaged_task wrapped at lines 58-60 and 71: the
\* callable's value or the exception it raised goes into the shared state and
\* nothing propagates to the caller of the std::function.
BareCallable(outcome) ==
    [stored |-> IF outcome = "failure" THEN "pending" ELSE outcome,
     escapes |-> outcome = "failure"]

PackagedTask(outcome) == [stored |-> outcome, escapes |-> FALSE]

TPInit ==
    /\ tp_stop = FALSE
    /\ tp_tasks = <<>>
    /\ tp_mutex = NoOne
    /\ tp_waiting = {}
    /\ tp_wpc = [w \in Workers |-> "lock"]
    /\ tp_wtask = [w \in Workers |-> 0]
    /\ tp_ppc = [p \in Producers |-> "idle"]
    /\ tp_pafter = [p \in Producers |-> FALSE]
    /\ tp_calls = 0
    /\ tp_accepted = 0
    /\ tp_dequeued = <<>>
    /\ tp_future = [t \in TaskIds |-> "pending"]
    /\ tp_execs = [t \in TaskIds |-> 0]
    /\ tp_wfailed = [w \in Workers |-> FALSE]
    /\ tp_atStop = <<>>
    /\ tp_dpc = "alive"
    /\ tp_joined = 0

\* ---- worker loop (lines 29-47) ----

\* std::unique_lock lock(queue_mutex_) at line 33, and the re-acquisition of
\* the mutex by a worker that was unblocked inside condition_.wait.
WorkerLock(w) ==
    /\ tp_wpc[w] = "lock"
    /\ tp_mutex = NoOne
    /\ tp_mutex' = <<"w", w>>
    /\ tp_wpc' = [tp_wpc EXCEPT ![w] = "pred"]
    /\ UNCHANGED <<tp_stop, tp_tasks, tp_waiting, tp_wtask, tp_ppc, tp_pafter,
                   tp_calls, tp_accepted, tp_dequeued, tp_future,
                   tp_execs, tp_wfailed, tp_atStop, tp_dpc, tp_joined>>
    /\ UNCHANGED NotTP

\* condition_.wait(lock, pred) evaluates pred with the mutex held (line 34-36).
WorkerPred(w) ==
    /\ tp_wpc[w] = "pred"
    /\ tp_wpc' = [tp_wpc EXCEPT ![w] = IF WaitPredicate THEN "decide" ELSE "wait"]
    /\ UNCHANGED <<tp_stop, tp_tasks, tp_mutex, tp_waiting, tp_wtask, tp_ppc,
                   tp_pafter, tp_calls, tp_accepted, tp_dequeued,
                   tp_future, tp_execs, tp_wfailed, tp_atStop, tp_dpc, tp_joined>>
    /\ UNCHANGED NotTP

\* pred was false: the wait releases the mutex and blocks, atomically.
WorkerWait(w) ==
    /\ tp_wpc[w] = "wait"
    /\ tp_mutex' = NoOne
    /\ tp_waiting' = tp_waiting \cup {w}
    /\ tp_wpc' = [tp_wpc EXCEPT ![w] = "blocked"]
    /\ UNCHANGED <<tp_stop, tp_tasks, tp_wtask, tp_ppc, tp_pafter, tp_calls, tp_accepted, tp_dequeued, tp_future, tp_execs,
                   tp_wfailed, tp_atStop, tp_dpc, tp_joined>>
    /\ UNCHANGED NotTP

\* A wait may return without any notification (spurious wakeup).
WorkerSpuriousWake(w) ==
    /\ w \in tp_waiting
    /\ tp_waiting' = tp_waiting \ {w}
    /\ tp_wpc' = [tp_wpc EXCEPT ![w] = "lock"]
    /\ UNCHANGED <<tp_stop, tp_tasks, tp_mutex, tp_wtask, tp_ppc, tp_pafter,
                   tp_calls, tp_accepted, tp_dequeued, tp_future,
                   tp_execs, tp_wfailed, tp_atStop, tp_dpc, tp_joined>>
    /\ UNCHANGED NotTP

\* A locked block that does not end before task() is called.
LockKept(holder) == holder
\* Line 44: the locked block ends, the unique_lock releases queue_mutex_.
LockedBlockEnds(holder) == NoOne

\* An enqueue() that lets go of the lock between the test of stop_ and the
\* emplace.
LockDropped(holder) == NoOne
\* Lines 65-72: one unique_lock spans the test of stop_ and the emplace.
LockSpansCheck(holder) == holder

\* Lines 38-44: return, or move the front task out of the queue; the lock is
\* released at the end of the block either way.
WorkerDecide(w) ==
    /\ tp_wpc[w] = "decide"
    /\ tp_mutex' = LockedBlockEnds(tp_mutex)
    /\ IF WorkerExits
       THEN /\ tp_wpc' = [tp_wpc EXCEPT ![w] = "exited"]
            /\ UNCHANGED <<tp_tasks, tp_wtask, tp_dequeued>>
       ELSE /\ tp_tasks # <<>>
            /\ tp_wtask' = [tp_wtask EXCEPT ![w] = FrontOf(tp_tasks)]
            /\ tp_dequeued' = Append(tp_dequeued, FrontOf(tp_tasks))
            /\ tp_tasks' = PopOf(tp_tasks)
            /\ tp_wpc' = [tp_wpc EXCEPT ![w] = "run"]
    /\ UNCHANGED <<tp_stop, tp_waiting, tp_ppc, tp_pafter, tp_calls,
                   tp_accepted, tp_future, tp_execs, tp_wfailed, tp_atStop,
                   tp_dpc, tp_joined>>
    /\ UNCHANGED NotTP

\* task() at line 46, with no lock held.  The callable returns a value or
\* raises; an exception that left task() would leave the thread function.
WorkerRun(w) ==
    /\ tp_wpc[w] = "run"
    /\ \E outcome \in Outcomes :
         LET r == PackagedTask(outcome)
             t == tp_wtask[w]
         IN /\ tp_future' = [tp_future EXCEPT ![t] =
                                IF r.stored = "pending" THEN @ ELSE r.stored]
            /\ tp_execs' = [tp_execs EXCEPT ![t] = @ + 1]
            /\ tp_wfailed' = [tp_wfailed EXCEPT ![w] = @ \/ outcome = "failure"]
            /\ tp_wpc' = [tp_wpc EXCEPT ![w] =
                                IF r.escapes THEN "terminated" ELSE "lock"]
    /\ tp_wtask' = [tp_wtask EXCEPT ![w] = 0]
    /\ UNCHANGED <<tp_stop, tp_tasks, tp_mutex, tp_waiting, tp_ppc, tp_pafter,
                   tp_calls, tp_accepted, tp_dequeued, tp_atStop,
                   tp_dpc, tp_joined>>
    /\ UNCHANGED NotTP

\* ---- enqueue (lines 53-76) ----

\* The call begins: the packaged_task and its future are made (lines 58-62).
EnqueueCall(p) ==
    /\ tp_ppc[p] = "idle"
    /\ tp_calls < MaxEnqueues
    /\ tp_calls' = tp_calls + 1
    /\ tp_pafter' = [tp_pafter EXCEPT ![p] = tp_stop]
    /\ tp_ppc' = [tp_ppc EXCEPT ![p] = "lock"]
    /\ UNCHANGED <<tp_stop, tp_tasks, tp_mutex, tp_waiting, tp_wpc, tp_wtask,
                   tp_accepted, tp_dequeued, tp_future, tp_execs, tp_wfailed,
                   tp_atStop, tp_dpc, tp_joined>>
    /\ UNCHANGED NotTP

\* Line 65.
EnqueueLock(p) ==
    /\ tp_ppc[p] = "lock"
    /\ tp_mutex = NoOne
    /\ tp_mutex' = <<"p", p>>
    /\ tp_ppc' = [tp_ppc EXCEPT ![p] = "check"]
    /\ UNCHANGED <<tp_stop, tp_tasks, tp_waiting, tp_wpc, tp_wtask, tp_pafter,
                   tp_calls, tp_accepted, tp_dequeued, tp_future,
                   tp_execs, tp_wfailed, tp_atStop, tp_dpc, tp_joined>>
    /\ UNCHANGED NotTP

\* Lines 67-69: throw (the unique_lock unlocks during unwinding), or go on.
EnqueueCheck(p) ==
    /\ tp_ppc[p] = "check"
    /\ IF EnqueueRejected
       THEN /\ tp_mutex' = NoOne
            /\ tp_pafter' = [tp_pafter EXCEPT ![p] = FALSE]
            /\ tp_ppc' = [tp_ppc EXCEPT ![p] = "idle"]
       ELSE /\ tp_ppc' = [tp_ppc EXCEPT ![p] = "push"]
            /\ tp_mutex' = LockSpansCheck(tp_mutex)
            /\ UNCHANGED tp_pafter
    /\ UNCHANGED <<tp_stop, tp_tasks, tp_waiting, tp_wpc, tp_wtask,
                   tp_calls, tp_accepted, tp_dequeued, tp_future, tp_execs,
                   tp_wfailed, tp_atStop, tp_dpc, tp_joined>>
    /\ UNCHANGED NotTP

\* Lines 71-72: tasks_.emplace, then the lock's scope ends.
EnqueuePush(p) ==
    /\ tp_ppc[p] = "push"
    /\ tp_accepted' = tp_accepted + 1
    /\ tp_tasks' = Append(tp_tasks, tp_accepted + 1)
    /\ tp_mutex' = NoOne
    /\ tp_ppc' = [tp_ppc EXCEPT ![p] = "notify"]
    /\ UNCHANGED <<tp_stop, tp_waiting, tp_wpc, tp_wtask, tp_pafter, tp_calls, tp_dequeued, tp_future, tp_execs, tp_wfailed,
                   tp_atStop, tp_dpc, tp_joined>>
    /\ UNCHANGED NotTP

\* Lines 74-75: condition_.notify_one(); return res.
EnqueueNotify(p) ==
    /\ tp_ppc[p] = "notify"
    /\ \E woken \in NotifyOne(tp_waiting) :
         /\ tp_waiting' = tp_waiting \ woken
         /\ tp_wpc' = [w \in Workers |-> IF w \in woken THEN "lock" ELSE tp_wpc[w]]
    /\ tp_pafter' = [tp_pafter EXCEPT ![p] = FALSE]
    /\ tp_ppc' = [tp_ppc EXCEPT ![p] = "idle"]
    /\ UNCHANGED <<tp_stop, tp_tasks, tp_mutex, tp_wtask, tp_calls,
                   tp_accepted, tp_dequeued, tp_future, tp_execs, tp_wfailed,
                   tp_atStop, tp_dpc, tp_joined>>
    /\ UNCHANGED NotTP

\* ---- ~ThreadPool (lines 107-116) ----

\* Line 108: stop_.store(true), without queue_mutex_.
DtorStore ==
    /\ tp_dpc = "alive"
    /\ tp_stop' = TRUE
    /\ tp_atStop' = tp_tasks
    /\ tp_dpc' = "notify"
    /\ UNCHANGED <<tp_tasks, tp_mutex, tp_waiting, tp_wpc, tp_wtask, tp_ppc,
                   tp_pafter, tp_calls, tp_accepted, tp_dequeued,
                   tp_future, tp_execs, tp_wfailed, tp_joined>>
    /\ UNCHANGED NotTP

\* Line 109: condition_.notify_all().
DtorNotify ==
    /\ tp_dpc = "notify"
    /\ \E woken \in NotifyAll(tp_waiting) :
         /\ tp_waiting' = tp_waiting \ woken
         /\ tp_wpc' = [w \in Workers |-> IF w \in woken THEN "lock" ELSE tp_wpc[w]]
    /\ tp_dpc' = "join"
    /\ UNCHANGED <<tp_stop, tp_tasks, tp_mutex, tp_wtask, tp_ppc, tp_pafter,
                   tp_calls, tp_accepted, tp_dequeued, tp_future,
                   tp_execs, tp_wfailed, tp_atStop, tp_joined>>
    /\ UNCHANGED NotTP

\* Lines 111-115: join the workers in the order of workers_.
DtorJoin ==
    /\ tp_dpc = "join"
    /\ IF tp_joined = NWorkers
       THEN /\ tp_dpc' = "done"
            /\ UNCHANGED tp_joined
       ELSE /\ tp_wpc[tp_joined + 1] = "exited"
            /\ tp_joined' = tp_joined + 1
            /\ UNCHANGED tp_dpc
    /\ UNCHANGED <<tp_stop, tp_tasks, tp_mutex, tp_waiting, tp_wpc, tp_wtask,
                   tp_ppc, tp_pafter, tp_calls, tp_accepted,
                   tp_dequeued, tp_future, tp_execs, tp_wfailed, tp_atStop>>
    /\ UNCHANGED NotTP

WorkerStep(w) ==
    \/ WorkerLock(w)
    \/ WorkerPred(w)
    \/ WorkerWait(w)
    \/ WorkerDecide(w)
    \/ WorkerRun(w)

EnqueueStep(p) ==
    \/ EnqueueCall(p)
    \/ EnqueueLock(p)
    \/ EnqueueCheck(p)
    \/ EnqueuePush(p)
    \/ EnqueueNotify(p)

DtorStep == DtorStore \/ DtorNotify \/ DtorJoin

TPNext ==
    \/ \E w \in Workers : WorkerStep(w)
    \/ \E w \in Workers : WorkerSpuriousWake(w)
    \/ \E p \in Producers : EnqueueStep(p)
    \/ DtorStep

(***************************************************************************)
(* LockFreeMemoryPool                                                      *)
(***************************************************************************)

\* The constructor (lines 97-107) pushes initial_size nodes one after the
\* other: node i is linked in front of node i - 1.
LFInit ==
    /\ lf_head = LFInitialSize
    /\ lf_next = [n \in Nodes |-> IF n <= LFInitialSize THEN n - 1 ELSE Null]
    /\ lf_created = LFInitialSize
    /\ lf_pc = [t \in Threads |-> "idle"]
    /\ lf_old_head = [t \in Threads |-> Null]
    /\ lf_arg = [t \in Threads |-> Null]
    /\ lf_node = [t \in Threads |-> Null]
    /\ lf_held = [t \in Threads |-> [n \in Nodes |-> 0]]

RECURSIVE SumThreads(_, _)
SumThreads(n, t) == IF t = 0 THEN 0 ELSE lf_held[t][n] + SumThreads(n, t - 1)

RECURSIVE SumHeld(_, _)
SumHeld(h, n) == IF n = 0 THEN 0 ELSE h[n] + SumHeld(h, n - 1)

HeldBy(t) == SumHeld(lf_held[t], LFMaxNodes)

\* A failed compare-and-swap that leaves the expected value as it was.
KeepExpected(t) == lf_old_head[t]
\* A failed compare_exchange_weak writes the value it found in head_ into
\* its first argument (old_head, lines 118 and 138).
ReloadExpected(t) == lf_head

\* head_.compare_exchange_weak(expected, desired): succeeds only when head_
\* holds expected.
CasSucceeds(expected) == lf_head = expected

\* allocate(), line 117: old_head = head_.load().
AllocLoad(t) ==
    /\ lf_pc[t] = "idle"
    /\ HeldBy(t) < LFMaxHeld
    /\ lf_old_head' = [lf_old_head EXCEPT ![t] = lf_head]
    /\ lf_pc' = [lf_pc EXCEPT ![t] = "a_test"]
    /\ UNCHANGED <<lf_head, lf_next, lf_created, lf_arg, lf_node, lf_held>>
    /\ UNCHANGED NotLF

\* Line 118-119: the loop test `old_head &&`, then the evaluation of the CAS
\* argument old_head->next.load().
AllocReadNext(t) ==
    /\ lf_pc[t] = "a_test"
    /\ IF lf_old_head[t] = Null
       THEN /\ lf_pc' = [lf_pc EXCEPT ![t] = "a_new"]
            /\ UNCHANGED lf_arg
       ELSE /\ lf_arg' = [lf_arg EXCEPT ![t] = lf_next[lf_old_head[t]]]
            /\ lf_pc' = [lf_pc EXCEPT ![t] = "a_cas"]
    /\ UNCHANGED <<lf_head, lf_next, lf_created, lf_old_head, lf_node, lf_held>>
    /\ UNCHANGED NotLF

\* Line 118-119 and 126: the CAS succeeds, head_ becomes the value read from
\* old_head->next and the caller gets old_head->data.
AllocCasSuccess(t) ==
    /\ lf_pc[t] = "a_cas"
    /\ CasSucceeds(lf_old_head[t])
    /\ lf_head' = lf_arg[t]
    /\ lf_held' = [lf_held EXCEPT ![t][lf_old_head[t]] = @ + 1]
    /\ lf_old_head' = [lf_old_head EXCEPT ![t] = Null]
    /\ lf_arg' = [lf_arg EXCEPT ![t] = Null]
    /\ lf_pc' = [lf_pc EXCEPT ![t] = "idle"]
    /\ UNCHANGED <<lf_next, lf_created, lf_node>>
    /\ UNCHANGED NotLF

\* The CAS fails (head_ differs, or compare_exchange_weak fails spuriously):
\* old_head is reloaded from head_ and the loop test runs again.
AllocCasFail(t) ==
    /\ lf_pc[t] = "a_cas"
    /\ lf_old_head' = [lf_old_head EXCEPT ![t] = ReloadExpected(t)]
    /\ lf_arg' = [lf_arg EXCEPT ![t] = Null]
    /\ lf_pc' = [lf_pc EXCEPT ![t] = "a_test"]
    /\ UNCHANGED <<lf_head, lf_next, lf_created, lf_node, lf_held>>
    /\ UNCHANGED NotLF

\* A node that exists already handed out instead of a new one.
LastNode == lf_created
\* Line 123: `new Node`, an object that did not exist before.
NewNode == lf_created + 1

\* Lines 122-126: the freelist was empty, a brand-new node is made and returned.
AllocNew(t) ==
    /\ lf_pc[t] = "a_new"
    /\ lf_created < LFMaxNodes
    /\ lf_created' = lf_created + 1
    /\ lf_next' = [lf_next EXCEPT ![lf_created + 1] = Null]
    /\ lf_held' = [lf_held EXCEPT ![t][NewNode] = @ + 1]
    /\ lf_pc' = [lf_pc EXCEPT ![t] = "idle"]
    /\ UNCHANGED <<lf_head, lf_old_head, lf_arg, lf_node>>
    /\ UNCHANGED NotLF

\* deallocate(ptr), lines 130-135, by a holder of ptr: the node is recovered
\* from the pointer and old_head = head_.load().
DeallocLoad(t) ==
    /\ lf_pc[t] = "idle"
    /\ \E n \in Nodes :
         /\ lf_held[t][n] > 0
         /\ lf_held' = [lf_held EXCEPT ![t][n] = @ - 1]
         /\ lf_node' = [lf_node EXCEPT ![t] = n]
    /\ lf_old_head' = [lf_old_head EXCEPT ![t] = lf_head]
    /\ lf_pc' = [lf_pc EXCEPT ![t] = "d_store"]
    /\ UNCHANGED <<lf_head, lf_next, lf_created, lf_arg>>
    /\ UNCHANGED NotLF

\* Line 137: node->next.store(old_head).
DeallocStoreNext(t) ==
    /\ lf_pc[t] = "d_store"
    /\ lf_next' = [lf_next EXCEPT ![lf_node[t]] = lf_old_head[t]]
    /\ lf_pc' = [lf_pc EXCEPT ![t] = "d_cas"]
    /\ UNCHANGED <<lf_head, lf_created, lf_old_head, lf_arg, lf_node, lf_held>>
    /\ UNCHANGED NotLF

\* Lines 138-139: the CAS succeeds and the node is the new head.
DeallocCasSuccess(t) ==
    /\ lf_pc[t] = "d_cas"
    /\ CasSucceeds(lf_old_head[t])
    /\ lf_head' = lf_node[t]
    /\ lf_node' = [lf_node EXCEPT ![t] = Null]
    /\ lf_old_head' = [lf_old_head EXCEPT ![t] = Null]
    /\ lf_pc' = [lf_pc EXCEPT ![t] = "idle"]
    /\ UNCHANGED <<lf_next, lf_created, lf_arg, lf_held>>
    /\ UNCHANGED NotLF

\* The CAS fails: old_head is reloaded and the loop body runs again.
DeallocCasFail(t) ==
    /\ lf_pc[t] = "d_cas"
    /\ lf_old_head' = [lf_old_head EXCEPT ![t] = ReloadExpected(t)]
    /\ lf_pc' = [lf_pc EXCEPT ![t] = "d_store"]
    /\ UNCHANGED <<lf_head, lf_next, lf_created, lf_arg, lf_node, lf_held>>
    /\ UNCHANGED NotLF

LFNext ==
    \E t \in Threads :
        \/ AllocLoad(t)
        \/ AllocReadNext(t)
        \/ AllocCasSuccess(t)
        \/ AllocCasFail(t)
        \/ AllocNew(t)
        \/ DeallocLoad(t)
        \/ DeallocStoreNext(t)
        \/ DeallocCasSuccess(t)
        \/ DeallocCasFail(t)

(***************************************************************************)
(* MemoryPool<T, BlockSize>: one thread calls allocate, deallocate,        *)
(* construct and destroy.  A block holds MPObjectsPerBlock =               *)
(* BlockSize / sizeof(T) >= 1 objects; slot i of block b is the pointer    *)
(* (b - 1) * MPObjectsPerBlock + i.                                        *)
(***************************************************************************)

MPNull == 0
\* How std::aligned_alloc (line 75) ends.
MPMemory == {"ok", "exhausted"}
\* How the constructor of T (line 45) ends.
MPCtor == {"ok", "raises"}

\* capacity(), lines 60-62.
Capacity == mp_blocks * MPObjectsPerBlock
\* available(), lines 64-66.
Available == Len(mp_free)

\* A loop that stops one slot short of the block.
ShortBlock(b) == [i \in 1..(MPObjectsPerBlock - 1) |-> (b - 1) * MPObjectsPerBlock + i]
\* Lines 81-85: the slots of block b, pushed in address order.
BlockSlots(b) == [i \in 1..MPObjectsPerBlock |-> (b - 1) * MPObjectsPerBlock + i]

\* A pool that adds a block while one slot is still free.
GrowsEarly(free) == Len(free) <= 1
\* Line 26: free_list_.empty().
FreeListEmpty(free) == Len(free) = 0

\* Every pointer is pushed, the null pointer too.
AnyPointer(ptr) == TRUE
\* Lines 36 and 54: `if (ptr)`.
NonNull(ptr) == ptr # MPNull

\* A catch clause that only rethrows.
NoRollback(free, ptr) == free
\* Lines 47-48: catch (...) { deallocate(ptr); throw; }.
Rollback(free, ptr) == Append(free, ptr)

\* The constructor (lines 15-17) allocates one block whatever initial_blocks is.
MPInit ==
    /\ mp_blocks = 1
    /\ mp_free = BlockSlots(1)
    /\ mp_live = {}
    /\ mp_misused = 0
    /\ mp_pc = "idle"
    /\ mp_ptr = MPNull
    /\ mp_last = <<"none", "none">>

TakeSlotNoPop(mem) ==
    IF FreeListEmpty(mp_free) /\ mem = "exhausted"
    THEN <<mp_blocks, mp_free, "bad_alloc", MPNull>>
    ELSE LET grown == IF FreeListEmpty(mp_free)
                      THEN mp_free \o BlockSlots(mp_blocks + 1)
                      ELSE mp_free
             blocks == IF FreeListEmpty(mp_free) THEN mp_blocks + 1 ELSE mp_blocks
         IN  <<blocks, grown, "returned", grown[Len(grown)]>>

\* Lines 25-33 up to the return: allocate_block() when the freelist is empty
\* (74-86, std::bad_alloc when aligned_alloc gives nothing), then back() and
\* pop_back().  The result is <<blocks_, free_list_, "returned" or "bad_alloc",
\* the pointer>>.
TakeSlot(mem) ==
    IF FreeListEmpty(mp_free) /\ mem = "exhausted"
    THEN <<mp_blocks, mp_free, "bad_alloc", MPNull>>
    ELSE LET grown == IF FreeListEmpty(mp_free)
                      THEN mp_free \o BlockSlots(mp_blocks + 1)
                      ELSE mp_free
             blocks == IF FreeListEmpty(mp_free) THEN mp_blocks + 1 ELSE mp_blocks
         IN  <<blocks, SubSeq(grown, 1, Len(grown) - 1), "returned", grown[Len(grown)]>>

\* allocate(), lines 25-33.
MPAllocate(mem) ==
    /\ mp_pc = "idle"
    /\ FreeListEmpty(mp_free) => mp_blocks < MPMaxBlocks
    /\ LET r == TakeSlot(mem) IN
         /\ mp_blocks' = r[1]
         /\ mp_free' = r[2]
         /\ mp_live' = IF r[3] = "bad_alloc" THEN mp_live ELSE mp_live \cup {r[4]}
         /\ mp_last' = <<"allocate", r[3]>>
    /\ UNCHANGED <<mp_misused, mp_pc, mp_ptr>>
    /\ UNCHANGED NotMP

\* deallocate(ptr), lines 35-39 (op = "deallocate"), and destroy(ptr), lines
\* 53-58 (op = "destroy"): the pointer is pushed without any test of where
\* it comes from.
GiveBack(op, ptr) ==
    /\ mp_pc = "idle"
    /\ (ptr # MPNull /\ ptr \notin mp_live) => mp_misused < MPMaxMisuse
    /\ mp_free' = IF NonNull(ptr) THEN Append(mp_free, ptr) ELSE mp_free
    /\ mp_live' = mp_live \ {ptr}
    /\ mp_misused' = IF ptr # MPNull /\ ptr \notin mp_live THEN mp_misused + 1
                                                          ELSE mp_misused
    /\ mp_last' = <<op, IF NonNull(ptr) THEN "returned" ELSE "ignored">>
    /\ UNCHANGED <<mp_blocks, mp_pc, mp_ptr>>
    /\ UNCHANGED NotMP

MPDeallocate(ptr) == GiveBack("deallocate", ptr)

MPDestroy(ptr) == GiveBack("destroy", ptr)

\* construct(), line 43: T* ptr = allocate().
MPConstructAllocate(mem) ==
    /\ mp_pc = "idle"
    /\ FreeListEmpty(mp_free) => mp_blocks < MPMaxBlocks
    /\ LET r == TakeSlot(mem) IN
         /\ mp_blocks' = r[1]
         /\ mp_free' = r[2]
         /\ IF r[3] = "bad_alloc"
            THEN /\ mp_last' = <<"construct", "bad_alloc">>
                 /\ UNCHANGED <<mp_pc, mp_ptr>>
            ELSE /\ mp_pc' = "constructing"
                 /\ mp_ptr' = r[4]
                 /\ mp_last' = <<"construct", "running">>
    /\ UNCHANGED <<mp_live, mp_misused>>
    /\ UNCHANGED NotMP

\* construct(), lines 44-50: placement new; the pointer is returned, or the
\* constructor raises, the slot goes back and the failure is raised again.
MPConstructEnd(ctor) ==
    /\ mp_pc = "constructing"
    /\ IF ctor = "ok"
       THEN /\ mp_live' = mp_live \cup {mp_ptr}
            /\ mp_last' = <<"construct", "returned">>
            /\ UNCHANGED mp_free
       ELSE /\ mp_free' = Rollback(mp_free, mp_ptr)
            /\ mp_last' = <<"construct", "ctor_failed">>
            /\ UNCHANGED mp_live
    /\ mp_pc' = "idle"
    /\ mp_ptr' = MPNull
    /\ UNCHANGED <<mp_blocks, mp_misused>>
    /\ UNCHANGED NotMP

\* The pointers a caller can pass: null and the slots of the blocks so far.
MPPointers == {MPNull} \cup 1..Capacity

MPNext ==
    \/ \E mem \in MPMemory : MPAllocate(mem) \/ MPConstructAllocate(mem)
    \/ \E ptr \in MPPointers : MPDeallocate(ptr) \/ MPDestroy(ptr)
    \/ \E ctor \in MPCtor : MPConstructEnd(ctor)

(***************************************************************************)
(* HighPriorityThreadPool: NWorkers threads, each asking for real-time     *)
(* scheduling and for a core of its own before it enters worker_loop().    *)
(* The pool is alive throughout (stop_ is false).                          *)
(***************************************************************************)

HPWorker(w) == <<"hp", w>>

HPInit ==
    /\ hp_cores = {}
    /\ hp_wpc = [w \in Workers |-> "priority"]
    /\ hp_sched = [w \in Workers |-> "default"]
    /\ hp_cpu = [w \in Workers |-> {}]
    /\ hp_mutex = NoOne
    /\ hp_waiting = {}
    /\ hp_queue = 0
    /\ hp_submitted = 0
    /\ hp_done = 0

HPAlive == \A w \in Workers : hp_wpc[w] # "killed"

\* set_thread_priority(), lines 199-209: pthread_setschedparam succeeds, or it
\* fails and nice(-20) is called, whose result is not looked at.
HPSetPriority(w, outcome) ==
    /\ hp_wpc[w] = "priority"
    /\ hp_sched' = [hp_sched EXCEPT ![w] = outcome]
    /\ hp_wpc' = [hp_wpc EXCEPT ![w] = "affinity"]
    /\ UNCHANGED <<hp_cores, hp_cpu, hp_mutex, hp_waiting, hp_queue, hp_submitted, hp_done>>
    /\ UNCHANGED NotHP

\* Line 215 with a core count above 0: thread_idx % hardware_concurrency(),
\* thread_idx being the ordinal of the worker, from 0.
CoreOf(w, cores) == (w - 1) % cores

\* Line 217: pthread_setaffinity_np, whose result is not looked at.
HPPin(w, core, pinned) ==
    /\ hp_cpu' = [hp_cpu EXCEPT ![w] = IF pinned THEN {core} ELSE {}]
    /\ hp_wpc' = [hp_wpc EXCEPT ![w] = "loop"]

\* set_thread_affinity(thread_idx), lines 211-219.  hardware_concurrency()
\* may report 0; the remainder by 0 is undefined: the process is killed by
\* the trap of the division, or the remainder is any value.
HPSetAffinity(w, cores, pinned) ==
    /\ hp_wpc[w] = "affinity"
    /\ hp_cores \in {{}, {cores}}
    /\ hp_cores' = {cores}
    /\ IF cores = 0
       THEN \/ /\ hp_wpc' = [x \in Workers |-> "killed"]
               /\ UNCHANGED hp_cpu
            \/ \E core \in 0..HPMaxCores : HPPin(w, core, pinned)
       ELSE HPPin(w, CoreOf(w, cores), pinned)
    /\ UNCHANGED <<hp_sched, hp_mutex, hp_waiting, hp_queue, hp_submitted, hp_done>>
    /\ UNCHANGED NotHP

\* worker_loop(), line 182: the lock is taken, at the top of the loop or on
\* the way out of condition_.wait.
HPLock(w) ==
    /\ hp_wpc[w] = "loop" \/ (hp_wpc[w] = "wait" /\ w \notin hp_waiting)
    /\ hp_mutex = NoOne
    /\ hp_mutex' = HPWorker(w)
    /\ hp_wpc' = [hp_wpc EXCEPT ![w] = "pred"]
    /\ UNCHANGED <<hp_cores, hp_sched, hp_cpu, hp_waiting, hp_queue, hp_submitted, hp_done>>
    /\ UNCHANGED NotHP

\* Lines 183-193: the predicate of the wait; with a task queued the worker
\* takes it and leaves the locked block, otherwise it waits.
HPPred(w) ==
    /\ hp_wpc[w] = "pred"
    /\ hp_mutex' = NoOne
    /\ IF hp_queue > 0
       THEN /\ hp_queue' = hp_queue - 1
            /\ hp_wpc' = [hp_wpc EXCEPT ![w] = "run"]
            /\ UNCHANGED hp_waiting
       ELSE /\ hp_waiting' = hp_waiting \cup {w}
            /\ hp_wpc' = [hp_wpc EXCEPT ![w] = "wait"]
            /\ UNCHANGED hp_queue
    /\ UNCHANGED <<hp_cores, hp_sched, hp_cpu, hp_submitted, hp_done>>
    /\ UNCHANGED NotHP

\* Line 195: task().
HPRun(w) ==
    /\ hp_wpc[w] = "run"
    /\ hp_done' = hp_done + 1
    /\ hp_wpc' = [hp_wpc EXCEPT ![w] = "loop"]
    /\ UNCHANGED <<hp_cores, hp_sched, hp_cpu, hp_mutex, hp_waiting, hp_queue, hp_submitted>>
    /\ UNCHANGED NotHP

\* A wait may end without a notification.
HPSpuriousWake(w) ==
    /\ HPAlive
    /\ w \in hp_waiting
    /\ hp_waiting' = hp_waiting \ {w}
    /\ UNCHANGED <<hp_cores, hp_wpc, hp_sched, hp_cpu, hp_mutex, hp_queue, hp_submitted, hp_done>>
    /\ UNCHANGED NotHP

\* enqueue_high_priority(), lines 139-163, by a thread of a live process:
\* the task is pushed under the lock and one waiter is notified.
HPEnqueue ==
    /\ HPAlive
    /\ hp_submitted < HPMaxTasks
    /\ hp_mutex = NoOne
    /\ hp_queue' = hp_queue + 1
    /\ hp_submitted' = hp_submitted + 1
    /\ \E woken \in NotifyOne(hp_waiting) : hp_waiting' = hp_waiting \ woken
    /\ UNCHANGED <<hp_cores, hp_wpc, hp_sched, hp_cpu, hp_mutex, hp_done>>
    /\ UNCHANGED NotHP

HPNext ==
    \/ \E w \in Workers :
          \/ \E outcome \in {"fifo", "nice", "refused"} : HPSetPriority(w, outcome)
          \/ \E cores \in 0..HPMaxCores, pinned \in BOOLEAN : HPSetAffinity(w, cores, pinned)
          \/ HPLock(w)
          \/ HPPred(w)
          \/ HPRun(w)
          \/ HPSpuriousWake(w)
    \/ HPEnqueue

(***************************************************************************)
(* Config: a store of string, int, double and bool values, written to and  *)
(* read from a text file.  A text is a sequence of characters.  A value is *)
(* a record: t its type, s the text of a string, n the number of an int,   *)
(* the tenths of a double (15 is 1.5) or 1/0 for a bool.  Numbers are not  *)
(* negative and both files open.                                           *)
(***************************************************************************)

DigitChars == <<"0", "1", "2", "3", "4", "5", "6", "7", "8", "9">>
Digits == {DigitChars[i] : i \in 1..10}
DigitValue(c) == (CHOOSE i \in 1..10 : DigitChars[i] = c) - 1
Blanks == {" ", "\t", "\r", "\n"}

StringValue(text) == [t |-> "string", s |-> text, n |-> 0]
IntValue(i) == [t |-> "int", s |-> <<>>, n |-> i]
DoubleValue(tenths) == [t |-> "double", s |-> <<>>, n |-> tenths]
BoolValue(b) == [t |-> "bool", s |-> <<>>, n |-> IF b THEN 1 ELSE 0]
NoValue == [t |-> "none", s |-> <<>>, n |-> 0]

CfgKeys == {<<"k">>, <<"j">>}
\* String values a caller stores: plain, reading as an int, as a bool, as a
\* double, and empty.
CfgTexts == {<<"a">>, <<"4", "2">>, <<"t", "r", "u", "e">>, <<"1", ".", "5">>, <<>>}
CfgValues ==
    {StringValue(text) : text \in CfgTexts}
    \cup {IntValue(i) : i \in 0..CfgMaxInt}
    \cup {DoubleValue(d) : d \in 0..CfgMaxTenths}
    \cup {BoolValue(b) : b \in BOOLEAN}

\* operator<< of an int.
RECURSIVE IntText(_)
IntText(i) ==
    IF i < 10 THEN <<DigitChars[i + 1]>>
    ELSE IntText(i \div 10) \o <<DigitChars[(i % 10) + 1]>>

\* operator<< of a double in the default format: no point and no fraction
\* when the fraction is zero.
DoubleText(tenths) ==
    IF tenths % 10 = 0 THEN IntText(tenths \div 10)
    ELSE IntText(tenths \div 10) \o <<".", DigitChars[(tenths % 10) + 1]>>

\* operator<< of a bool, std::boolalpha not being set.
BoolText(b) == IF b = 1 THEN <<"1">> ELSE <<"0">>

\* save_to_file, lines 109-115: a string goes between double quotes, the
\* other types as the stream writes them.
ValueText(v) ==
    CASE v.t = "string" -> <<"\"">> \o v.s \o <<"\"">>
      [] v.t = "int" -> IntText(v.n)
      [] v.t = "double" -> DoubleText(v.n)
      [] v.t = "bool" -> BoolText(v.n)

\* Lines 106-118: the lines of the file, one per key of the store.
FileOf(store) ==
    {k \o <<"=">> \o ValueText(store[k]) : k \in {x \in CfgKeys : store[x] # NoValue}}

\* trim(), lines 126-134.
RECURSIVE Trim(_)
Trim(text) ==
    IF text = <<>> THEN <<>>
    ELSE IF text[1] \in Blanks THEN Trim(Tail(text))
    ELSE IF text[Len(text)] \in Blanks THEN Trim(SubSeq(text, 1, Len(text) - 1))
    ELSE text

\* Lines 44-46: the quotes around a value are removed.
Unquote(text) ==
    IF Len(text) >= 2 /\ text[1] = "\"" /\ text[Len(text)] = "\""
    THEN SubSeq(text, 2, Len(text) - 1)
    ELSE text

AllDigits(text) == Len(text) > 0 /\ \A i \in 1..Len(text) : text[i] \in Digits

RECURSIVE NumberOf(_)
NumberOf(text) ==
    IF text = <<>> THEN 0
    ELSE 10 * NumberOf(SubSeq(text, 1, Len(text) - 1)) + DigitValue(text[Len(text)])

\* The position of the point of a text that std::stod reads to its end:
\* digits, a point, one digit (0 when the text is not of that form).
PointOf(text) ==
    IF /\ Len(text) >= 3
       /\ text[Len(text) - 1] = "."
       /\ AllDigits(SubSeq(text, 1, Len(text) - 2))
       /\ text[Len(text)] \in Digits
    THEN Len(text) - 1 ELSE 0

\* parse_value(), lines 136-165: a boolean word, else a text std::stoi reads
\* to its end, else one std::stod reads to its end, else the string.
ParseValue(text) ==
    IF text \in {<<"t", "r", "u", "e">>, <<"T", "R", "U", "E">>} THEN BoolValue(TRUE)
    ELSE IF text \in {<<"f", "a", "l", "s", "e">>, <<"F", "A", "L", "S", "E">>} THEN BoolValue(FALSE)
    ELSE IF AllDigits(text) THEN IntValue(NumberOf(text))
    ELSE IF PointOf(text) > 0
         THEN DoubleValue(10 * NumberOf(SubSeq(text, 1, PointOf(text) - 1))
                          + DigitValue(text[Len(text)]))
    ELSE StringValue(text)

\* Line 35: line.find('='), 0 when there is none.
FindEquals(line) ==
    IF \E i \in 1..Len(line) : line[i] = "="
    THEN CHOOSE i \in 1..Len(line) : line[i] = "=" /\ \A j \in 1..(i - 1) : line[j] # "="
    ELSE 0

\* Lines 31-38: lines that are empty, begin with '#' or hold no '='.
Skipped(line) == line = <<>> \/ line[1] = "#" \/ FindEquals(line) = 0

\* Lines 40-48 for one line: the key and the value it stores.
KeyOfLine(line) == Trim(SubSeq(line, 1, FindEquals(line) - 1))
ValueOfLine(line) == ParseValue(Unquote(Trim(SubSeq(line, FindEquals(line) + 1, Len(line)))))

\* load_from_file into an empty store, lines 29-49; no key is on two lines
\* of a file written by save_to_file.
LoadOf(file) ==
    [k \in CfgKeys |->
        IF \E line \in file : ~Skipped(line) /\ KeyOfLine(line) = k
        THEN ValueOfLine(CHOOSE line \in file : ~Skipped(line) /\ KeyOfLine(line) = k)
        ELSE NoValue]

CfgInit ==
    /\ cfg_map = [k \in CfgKeys |-> NoValue]
    /\ cfg_file = {}
    /\ cfg_saved = [k \in CfgKeys |-> NoValue]
    /\ cfg_loaded = [k \in CfgKeys |-> NoValue]
    /\ cfg_state = "nofile"

\* set(key, value), lines 70-74.
CfgSet(key, value) ==
    /\ cfg_map' = [cfg_map EXCEPT ![key] = value]
    /\ UNCHANGED <<cfg_file, cfg_saved, cfg_loaded, cfg_state>>
    /\ UNCHANGED NotCfg

\* remove(key), lines 81-84.
CfgRemove(key) ==
    /\ cfg_map' = [cfg_map EXCEPT ![key] = NoValue]
    /\ UNCHANGED <<cfg_file, cfg_saved, cfg_loaded, cfg_state>>
    /\ UNCHANGED NotCfg

\* save_to_file(filename), lines 98-121.
CfgSave ==
    /\ cfg_file' = FileOf(cfg_map)
    /\ cfg_saved' = cfg_map
    /\ cfg_loaded' = [k \in CfgKeys |-> NoValue]
    /\ cfg_state' = "saved"
    /\ UNCHANGED cfg_map
    /\ UNCHANGED NotCfg

\* load_from_file(filename) by a process whose store is empty, lines 21-52.
CfgLoad ==
    /\ cfg_state = "saved"
    /\ cfg_loaded' = LoadOf(cfg_file)
    /\ cfg_state' = "loaded"
    /\ UNCHANGED <<cfg_map, cfg_file, cfg_saved>>
    /\ UNCHANGED NotCfg

CfgNext ==
    \/ \E key \in CfgKeys, value \in CfgValues : CfgSet(key, value)
    \/ \E key \in CfgKeys : CfgRemove(key)
    \/ CfgSave
    \/ CfgLoad

(***************************************************************************)
(* EventBus                                                                *)
(*                                                                         *)
(* worker_thread_ is not synchronised: set_async_mode() and shutdown() are *)
(* called by one thread, the Owner, except under EBModeSpec, where every   *)
(* client calls set_async_mode().  Every client subscribes, unsubscribes,  *)
(* publishes and flushes.                                                  *)
(***************************************************************************)

\* The private constructor (line 140).
EBInit ==
    /\ eb_async = FALSE
    /\ eb_shutdown = FALSE
    /\ eb_queue = <<>>
    /\ eb_mutex = NoOne
    /\ eb_cv = {}
    /\ eb_joinable = FALSE
    /\ eb_dpc = "none"
    /\ eb_devent = 0
    /\ eb_cpc = [c \in Clients |-> "idle"]
    /\ eb_calls = 0
    /\ eb_pushed = 0
    /\ eb_mine = [c \in Clients |-> {}]
    /\ eb_done = <<>>
    /\ eb_handlers = [t \in Types |-> <<>>]
    /\ eb_hreaders = {}
    /\ eb_hwriter = NoOne
    /\ eb_subs = 0
    /\ eb_etype = [e \in 1..MaxPublish |-> NoType]
    /\ eb_ptype = [c \in Clients |-> NoType]
    /\ eb_harg = [c \in Clients |-> 0]
    /\ eb_di = [th \in EBThreads |-> 0]
    /\ eb_ran = [th \in EBThreads |-> <<>>]
    /\ eb_atShutdown = {}
    /\ eb_lost = 0

\* The threads a notification unblocks leave queue_cv_.wait and go on to
\* re-acquire queue_mutex_.
EBWake(woken) ==
    /\ eb_cv' = eb_cv \ woken
    /\ eb_dpc' = IF Dispatcher \in woken THEN "lock" ELSE eb_dpc

EBWakeClients(woken, c, pc) ==
    eb_cpc' = [x \in Clients |->
                  IF x = c THEN pc
                  ELSE IF Client(x) \in woken THEN "f_lock" ELSE eb_cpc[x]]

\* The predicate of the wait in flush (line 116).
FlushPredicate == eb_queue = <<>>

\* The predicate of the wait in worker_loop (lines 161-163).
WorkerPredicate == eb_queue # <<>> \/ eb_shutdown

\* The handler list handlers_.find(type) yields (lines 146-147, 185-186); a
\* type without an entry has no handler to run.
HandlersOf(type) == eb_handlers[type]

\* The catch clause of the handler loop (lines 151, 190) stops what derives
\* from std::exception; anything else leaves the loop and the function.
Caught(outcome) == outcome = "std_exception"

HSharedAlways == TRUE

\* std::shared_lock on handlers_mutex_ (lines 144, 183) can be taken.
HSharedFree == eb_hwriter = NoOne

HWriterFree == eb_hwriter = NoOne

\* std::lock_guard on handlers_mutex_ (lines 74, 80) can be taken.
HExclusiveFree == eb_hwriter = NoOne /\ eb_hreaders = {}

FirstType(th) == CHOOSE t \in Types : \A x \in Types : t <= x

\* The key of the lookup: the static EventType of the publish call (line 146)
\* or Event::type_id of the queued event (line 185).
DispatchType(th) ==
    IF th = Dispatcher THEN eb_etype[eb_devent] ELSE eb_ptype[th[2]]

BackwardsOnDispatcher(th) ==
    IF th = Dispatcher
    THEN HandlersOf(DispatchType(th))[Len(HandlersOf(DispatchType(th))) + 1 - eb_di[th]]
    ELSE HandlersOf(DispatchType(th))[eb_di[th]]

\* The handler the loop of thread th is at (lines 148, 187).
CurrentHandler(th) == HandlersOf(DispatchType(th))[eb_di[th]]

LoopDone(th) == eb_di[th] > Len(HandlersOf(DispatchType(th)))

\* An uncaught failure on the dispatcher thread ends in std::terminate: the
\* process is gone, no thread takes another step.
ProcessAborts ==
    /\ eb_dpc' = "aborted"
    /\ eb_cpc' = [c \in Clients |-> "aborted"]
    /\ eb_cv' = {}

\* event_queue_.front() (line 170) and the queue after pop() (line 171).
QueueBack(q) == q[Len(q)]

QueueFront(q) == Head(q)

QueuePop(q) == Tail(q)

\* ---- worker_loop (lines 158-180) ----

\* Line 160, and the re-acquisition of the mutex after a wakeup.
DispLock ==
    /\ eb_dpc = "lock"
    /\ eb_mutex = NoOne
    /\ eb_mutex' = Dispatcher
    /\ eb_dpc' = "pred"
    /\ UNCHANGED <<eb_async, eb_shutdown, eb_queue, eb_cv, eb_joinable, eb_devent,
                   eb_cpc, eb_calls, eb_pushed, eb_mine, eb_done>>
    /\ UNCHANGED ebregvars
    /\ UNCHANGED NotEB

\* Lines 161-163: the predicate is evaluated with the mutex held.
DispPred ==
    /\ eb_dpc = "pred"
    /\ eb_dpc' = IF WorkerPredicate THEN "decide" ELSE "wait"
    /\ UNCHANGED <<eb_async, eb_shutdown, eb_queue, eb_mutex, eb_cv, eb_joinable,
                   eb_devent, eb_cpc, eb_calls, eb_pushed, eb_mine, eb_done>>
    /\ UNCHANGED ebregvars
    /\ UNCHANGED NotEB

\* The wait releases the mutex and blocks, atomically.
DispWait ==
    /\ eb_dpc = "wait"
    /\ eb_mutex' = NoOne
    /\ eb_cv' = eb_cv \cup {Dispatcher}
    /\ eb_dpc' = "blocked"
    /\ UNCHANGED <<eb_async, eb_shutdown, eb_queue, eb_joinable, eb_devent,
                   eb_cpc, eb_calls, eb_pushed, eb_mine, eb_done>>
    /\ UNCHANGED ebregvars
    /\ UNCHANGED NotEB

\* Lines 165-167: break (the unique_lock unlocks), or go on to the inner loop.
DispDecide ==
    /\ eb_dpc = "decide"
    /\ IF eb_shutdown /\ eb_queue = <<>>
       THEN /\ eb_dpc' = "exited"
            /\ eb_mutex' = NoOne
       ELSE /\ eb_dpc' = "inner"
            /\ UNCHANGED eb_mutex
    /\ UNCHANGED <<eb_async, eb_shutdown, eb_queue, eb_cv, eb_joinable, eb_devent,
                   eb_cpc, eb_calls, eb_pushed, eb_mine, eb_done>>
    /\ UNCHANGED ebregvars
    /\ UNCHANGED NotEB

\* Lines 169-172: pop the front event and unlock; with the queue empty the
\* body of the outer loop ends and the unique_lock unlocks.
DispPop ==
    /\ eb_dpc = "inner"
    /\ eb_mutex' = NoOne
    /\ IF eb_queue # <<>>
       THEN /\ eb_devent' = QueueFront(eb_queue)
            /\ eb_queue' = QueuePop(eb_queue)
            /\ eb_dpc' = "dispatch"
       ELSE /\ eb_dpc' = "lock"
            /\ UNCHANGED <<eb_devent, eb_queue>>
    /\ UNCHANGED <<eb_async, eb_shutdown, eb_cv, eb_joinable, eb_cpc, eb_calls,
                   eb_pushed, eb_mine, eb_done>>
    /\ UNCHANGED ebregvars
    /\ UNCHANGED NotEB

\* Lines 175 and 183: dispatch_polymorphic_event takes handlers_mutex_ shared.
DispDispatchLock ==
    /\ eb_dpc = "dispatch"
    /\ HSharedFree
    /\ eb_hreaders' = eb_hreaders \cup {Dispatcher}
    /\ eb_di' = [eb_di EXCEPT ![Dispatcher] = 1]
    /\ eb_dpc' = "d_loop"
    /\ UNCHANGED <<eb_async, eb_shutdown, eb_queue, eb_mutex, eb_cv, eb_joinable,
                   eb_devent, eb_cpc, eb_calls, eb_pushed, eb_mine, eb_done>>
    /\ UNCHANGED <<eb_handlers, eb_hwriter, eb_subs, eb_etype, eb_ptype, eb_harg,
                   eb_ran,
                   eb_atShutdown>>
    /\ UNCHANGED NotEB

\* Lines 187-193: one handler of the event is called.
DispHandler ==
    /\ eb_dpc = "d_loop"
    /\ ~LoopDone(Dispatcher)
    /\ eb_ran' = [eb_ran EXCEPT ![Dispatcher] = Append(@, CurrentHandler(Dispatcher))]
    /\ \E outcome \in HandlerOutcomes :
         IF outcome = "returns" \/ Caught(outcome)
         THEN /\ eb_di' = [eb_di EXCEPT ![Dispatcher] = @ + 1]
              /\ UNCHANGED <<eb_dpc, eb_cpc, eb_cv>>
         ELSE /\ ProcessAborts
              /\ UNCHANGED eb_di
    /\ UNCHANGED <<eb_async, eb_shutdown, eb_queue, eb_mutex, eb_joinable,
                   eb_devent, eb_calls, eb_pushed, eb_mine, eb_done>>
    /\ UNCHANGED <<eb_handlers, eb_hreaders, eb_hwriter, eb_subs, eb_etype,
                   eb_ptype, eb_harg,
                   eb_atShutdown>>
    /\ UNCHANGED NotEB

\* Lines 193-195 and 175-178: the loop is over, the shared lock is released,
\* the dispatch of the event has finished and the event object is destroyed.
DispDispatch ==
    /\ eb_dpc = "d_loop"
    /\ LoopDone(Dispatcher)
    /\ eb_hreaders' = eb_hreaders \ {Dispatcher}
    /\ eb_di' = [eb_di EXCEPT ![Dispatcher] = 0]
    /\ eb_ran' = [eb_ran EXCEPT ![Dispatcher] = <<>>]
    /\ eb_done' = Append(eb_done, eb_devent)
    /\ eb_etype' = [eb_etype EXCEPT ![eb_devent] = NoType]
    /\ eb_devent' = 0
    /\ eb_dpc' = "relock"
    /\ UNCHANGED <<eb_async, eb_shutdown, eb_queue, eb_mutex, eb_cv, eb_joinable,
                   eb_cpc, eb_calls, eb_pushed, eb_mine>>
    /\ UNCHANGED <<eb_handlers, eb_hwriter, eb_subs, eb_ptype, eb_harg,
                   eb_atShutdown>>
    /\ UNCHANGED NotEB

\* Line 177: lock.lock().
DispRelock ==
    /\ eb_dpc = "relock"
    /\ eb_mutex = NoOne
    /\ eb_mutex' = Dispatcher
    /\ eb_dpc' = "inner"
    /\ UNCHANGED <<eb_async, eb_shutdown, eb_queue, eb_cv, eb_joinable, eb_devent,
                   eb_cpc, eb_calls, eb_pushed, eb_mine, eb_done>>
    /\ UNCHANGED ebregvars
    /\ UNCHANGED NotEB

\* A wait on queue_cv_ may return without any notification.
EBSpuriousWake ==
    /\ \E th \in eb_cv :
         /\ EBWake({th})
         /\ EBWakeClients({th}, 0, "idle")
    /\ UNCHANGED <<eb_async, eb_shutdown, eb_queue, eb_mutex, eb_joinable,
                   eb_devent, eb_calls, eb_pushed, eb_mine, eb_done>>
    /\ UNCHANGED ebregvars
    /\ UNCHANGED NotEB

\* ---- publish (lines 84-97) ----

\* Line 86: publish<EventType> is called and the mode flag decides the path.
PublishCall(c) ==
    /\ eb_cpc[c] = "idle"
    /\ eb_calls < MaxPublish
    /\ eb_calls' = eb_calls + 1
    /\ eb_cpc' = [eb_cpc EXCEPT ![c] = IF eb_async THEN "p_lock" ELSE "p_sync"]
    /\ \E type \in Types : eb_ptype' = [eb_ptype EXCEPT ![c] = type]
    /\ UNCHANGED <<eb_async, eb_shutdown, eb_queue, eb_mutex, eb_cv, eb_joinable,
                   eb_dpc, eb_devent, eb_pushed, eb_mine, eb_done>>
    /\ UNCHANGED <<eb_handlers, eb_hreaders, eb_hwriter, eb_subs, eb_etype,
                   eb_harg, eb_di, eb_ran,
                   eb_atShutdown>>
    /\ UNCHANGED NotEB

\* Lines 95 and 144: dispatch_event, on the publishing thread, takes
\* handlers_mutex_ shared.
PublishSync(c) ==
    /\ eb_cpc[c] = "p_sync"
    /\ HSharedFree
    /\ eb_hreaders' = eb_hreaders \cup {Client(c)}
    /\ eb_di' = [eb_di EXCEPT ![Client(c)] = 1]
    /\ eb_cpc' = [eb_cpc EXCEPT ![c] = "p_loop"]
    /\ UNCHANGED <<eb_async, eb_shutdown, eb_queue, eb_mutex, eb_cv, eb_joinable,
                   eb_dpc, eb_devent, eb_calls, eb_pushed, eb_mine, eb_done>>
    /\ UNCHANGED <<eb_handlers, eb_hwriter, eb_subs, eb_etype, eb_ptype, eb_harg,
                   eb_ran,
                   eb_atShutdown>>
    /\ UNCHANGED NotEB

\* Lines 148-154: one handler is called.  A failure the catch clause does not
\* stop unwinds dispatch_event (the shared lock is released) and publish.
PublishHandler(c) ==
    /\ eb_cpc[c] = "p_loop"
    /\ ~LoopDone(Client(c))
    /\ eb_ran' = [eb_ran EXCEPT ![Client(c)] = Append(@, CurrentHandler(Client(c)))]
    /\ \E outcome \in HandlerOutcomes :
         IF outcome = "returns" \/ Caught(outcome)
         THEN /\ eb_di' = [eb_di EXCEPT ![Client(c)] = @ + 1]
              /\ UNCHANGED <<eb_cpc, eb_hreaders>>
         ELSE /\ eb_cpc' = [eb_cpc EXCEPT ![c] = "p_raised"]
              /\ eb_hreaders' = eb_hreaders \ {Client(c)}
              /\ UNCHANGED eb_di
    /\ UNCHANGED <<eb_async, eb_shutdown, eb_queue, eb_mutex, eb_cv, eb_joinable,
                   eb_dpc, eb_devent, eb_calls, eb_pushed, eb_mine, eb_done>>
    /\ UNCHANGED <<eb_handlers, eb_hwriter, eb_subs, eb_etype, eb_ptype, eb_harg,
                   eb_atShutdown>>
    /\ UNCHANGED NotEB

\* Lines 154-156 and 96-97: the loop is over, the shared lock is released and
\* publish returns.
PublishReturn(c) ==
    /\ eb_cpc[c] = "p_loop"
    /\ LoopDone(Client(c))
    /\ eb_hreaders' = eb_hreaders \ {Client(c)}
    /\ eb_di' = [eb_di EXCEPT ![Client(c)] = 0]
    /\ eb_ran' = [eb_ran EXCEPT ![Client(c)] = <<>>]
    /\ eb_ptype' = [eb_ptype EXCEPT ![c] = NoType]
    /\ eb_cpc' = [eb_cpc EXCEPT ![c] = "idle"]
    /\ UNCHANGED <<eb_async, eb_shutdown, eb_queue, eb_mutex, eb_cv, eb_joinable,
                   eb_dpc, eb_devent, eb_calls, eb_pushed, eb_mine, eb_done>>
    /\ UNCHANGED <<eb_handlers, eb_hwriter, eb_subs, eb_etype, eb_harg,
                   eb_atShutdown>>
    /\ UNCHANGED NotEB

\* The failure of a handler has left publish: the caller of publish has it.
PublishRaised(c) ==
    /\ eb_cpc[c] = "p_raised"
    /\ eb_di' = [eb_di EXCEPT ![Client(c)] = 0]
    /\ eb_ran' = [eb_ran EXCEPT ![Client(c)] = <<>>]
    /\ eb_ptype' = [eb_ptype EXCEPT ![c] = NoType]
    /\ eb_cpc' = [eb_cpc EXCEPT ![c] = "idle"]
    /\ UNCHANGED <<eb_async, eb_shutdown, eb_queue, eb_mutex, eb_cv, eb_joinable,
                   eb_dpc, eb_devent, eb_calls, eb_pushed, eb_mine, eb_done>>
    /\ UNCHANGED <<eb_handlers, eb_hreaders, eb_hwriter, eb_subs, eb_etype, eb_harg,
                   eb_atShutdown>>
    /\ UNCHANGED NotEB

\* Line 90.
PublishLock(c) ==
    /\ eb_cpc[c] = "p_lock"
    /\ eb_mutex = NoOne
    /\ eb_mutex' = Client(c)
    /\ eb_cpc' = [eb_cpc EXCEPT ![c] = "p_push"]
    /\ UNCHANGED <<eb_async, eb_shutdown, eb_queue, eb_cv, eb_joinable, eb_dpc,
                   eb_devent, eb_calls, eb_pushed, eb_mine, eb_done>>
    /\ UNCHANGED ebregvars
    /\ UNCHANGED NotEB

QueuePushFront(q, e) == <<e>> \o q

\* event_queue_.push (line 91).
QueuePush(q, e) == Append(q, e)

\* Lines 87-92: the copy of the event (it carries the type_id of the
\* original) is appended to event_queue_, then the lock_guard unlocks.
PublishPush(c) ==
    /\ eb_cpc[c] = "p_push"
    /\ eb_pushed' = eb_pushed + 1
    /\ eb_queue' = QueuePush(eb_queue, eb_pushed + 1)
    /\ eb_mine' = [eb_mine EXCEPT ![c] = @ \cup {eb_pushed + 1}]
    /\ eb_mutex' = NoOne
    /\ eb_etype' = [eb_etype EXCEPT ![eb_pushed + 1] = eb_ptype[c]]
    /\ eb_cpc' = [eb_cpc EXCEPT ![c] = "p_notify"]
    /\ UNCHANGED <<eb_async, eb_shutdown, eb_cv, eb_joinable, eb_dpc, eb_devent,
                   eb_calls, eb_done>>
    /\ UNCHANGED <<eb_handlers, eb_hreaders, eb_hwriter, eb_subs, eb_ptype,
                   eb_harg, eb_di, eb_ran,
                   eb_atShutdown>>
    /\ UNCHANGED NotEB

\* Line 93: queue_cv_.notify_one().
PublishNotify(c) ==
    /\ eb_cpc[c] = "p_notify"
    /\ \E woken \in NotifyOne(eb_cv) :
         /\ EBWake(woken)
         /\ EBWakeClients(woken, c, "idle")
    /\ eb_ptype' = [eb_ptype EXCEPT ![c] = NoType]
    /\ UNCHANGED <<eb_async, eb_shutdown, eb_queue, eb_mutex, eb_joinable,
                   eb_devent, eb_calls, eb_pushed, eb_mine, eb_done>>
    /\ UNCHANGED <<eb_handlers, eb_hreaders, eb_hwriter, eb_subs, eb_etype,
                   eb_harg, eb_di, eb_ran,
                   eb_atShutdown>>
    /\ UNCHANGED NotEB

\* ---- subscribe (lines 70-76), unsubscribe (lines 78-82) ----

\* Lines 72-74: the handler object is made, then handlers_mutex_ is taken
\* exclusively.
SubscribeLock(c, type) ==
    /\ eb_cpc[c] = "idle"
    /\ eb_subs < MaxSubscribe
    /\ HExclusiveFree
    /\ eb_subs' = eb_subs + 1
    /\ eb_harg' = [eb_harg EXCEPT ![c] = eb_subs + 1]
    /\ eb_ptype' = [eb_ptype EXCEPT ![c] = type]
    /\ eb_hwriter' = Client(c)
    /\ eb_cpc' = [eb_cpc EXCEPT ![c] = "sub_push"]
    /\ UNCHANGED <<eb_async, eb_shutdown, eb_queue, eb_mutex, eb_cv, eb_joinable,
                   eb_dpc, eb_devent, eb_calls, eb_pushed, eb_mine, eb_done>>
    /\ UNCHANGED <<eb_handlers, eb_hreaders, eb_etype, eb_di, eb_ran,
                   eb_atShutdown>>
    /\ UNCHANGED NotEB

\* The handler list of a type after push_back (line 75).
PushBack(list, h) == Append(list, h)

\* Lines 75-76: push_back on the list of the type, then the lock is released.
SubscribePush(c) ==
    /\ eb_cpc[c] = "sub_push"
    /\ eb_handlers' = [eb_handlers EXCEPT ![eb_ptype[c]] = PushBack(@, eb_harg[c])]
    /\ eb_hwriter' = NoOne
    /\ eb_harg' = [eb_harg EXCEPT ![c] = 0]
    /\ eb_ptype' = [eb_ptype EXCEPT ![c] = NoType]
    /\ eb_cpc' = [eb_cpc EXCEPT ![c] = "idle"]
    /\ UNCHANGED <<eb_async, eb_shutdown, eb_queue, eb_mutex, eb_cv, eb_joinable,
                   eb_dpc, eb_devent, eb_calls, eb_pushed, eb_mine, eb_done>>
    /\ UNCHANGED <<eb_hreaders, eb_subs, eb_etype, eb_di, eb_ran,
                   eb_atShutdown>>
    /\ UNCHANGED NotEB

\* Line 80: handlers_mutex_ is taken exclusively.
UnsubscribeLock(c, type) ==
    /\ eb_cpc[c] = "idle"
    /\ HExclusiveFree
    /\ eb_ptype' = [eb_ptype EXCEPT ![c] = type]
    /\ eb_hwriter' = Client(c)
    /\ eb_cpc' = [eb_cpc EXCEPT ![c] = "unsub_erase"]
    /\ UNCHANGED <<eb_async, eb_shutdown, eb_queue, eb_mutex, eb_cv, eb_joinable,
                   eb_dpc, eb_devent, eb_calls, eb_pushed, eb_mine, eb_done>>
    /\ UNCHANGED <<eb_handlers, eb_hreaders, eb_subs, eb_etype, eb_harg, eb_di,
                   eb_ran,
                   eb_atShutdown>>
    /\ UNCHANGED NotEB

\* The registry after handlers_.erase(type) (line 81).
EraseAll(registry, type) == [t \in Types |-> <<>>]

Erase(registry, type) == [registry EXCEPT ![type] = <<>>]

\* Lines 81-82: the entry of the type is erased, then the lock is released.
UnsubscribeErase(c) ==
    /\ eb_cpc[c] = "unsub_erase"
    /\ eb_handlers' = Erase(eb_handlers, eb_ptype[c])
    /\ eb_hwriter' = NoOne
    /\ eb_ptype' = [eb_ptype EXCEPT ![c] = NoType]
    /\ eb_cpc' = [eb_cpc EXCEPT ![c] = "idle"]
    /\ UNCHANGED <<eb_async, eb_shutdown, eb_queue, eb_mutex, eb_cv, eb_joinable,
                   eb_dpc, eb_devent, eb_calls, eb_pushed, eb_mine, eb_done>>
    /\ UNCHANGED <<eb_hreaders, eb_subs, eb_etype, eb_harg, eb_di, eb_ran,
                   eb_atShutdown>>
    /\ UNCHANGED NotEB

\* ---- flush (lines 112-117) ----

FlushCallWaits(c) ==
    /\ eb_cpc[c] = "idle"
    /\ eb_cpc' = [eb_cpc EXCEPT ![c] = "f_lock"]
    /\ UNCHANGED <<eb_async, eb_shutdown, eb_queue, eb_mutex, eb_cv, eb_joinable,
                   eb_dpc, eb_devent, eb_calls, eb_pushed, eb_mine, eb_done>>
    /\ UNCHANGED ebregvars
    /\ UNCHANGED NotEB

\* Line 113: return at once outside asynchronous mode.
FlushCall(c) ==
    /\ eb_cpc[c] = "idle"
    /\ eb_cpc' = [eb_cpc EXCEPT ![c] = IF eb_async THEN "f_lock" ELSE "idle"]
    /\ UNCHANGED <<eb_async, eb_shutdown, eb_queue, eb_mutex, eb_cv, eb_joinable,
                   eb_dpc, eb_devent, eb_calls, eb_pushed, eb_mine, eb_done>>
    /\ UNCHANGED ebregvars
    /\ UNCHANGED NotEB

\* Line 115, and the re-acquisition of the mutex after a wakeup.
FlushLock(c) ==
    /\ eb_cpc[c] = "f_lock"
    /\ eb_mutex = NoOne
    /\ eb_mutex' = Client(c)
    /\ eb_cpc' = [eb_cpc EXCEPT ![c] = "f_pred"]
    /\ UNCHANGED <<eb_async, eb_shutdown, eb_queue, eb_cv, eb_joinable, eb_dpc,
                   eb_devent, eb_calls, eb_pushed, eb_mine, eb_done>>
    /\ UNCHANGED ebregvars
    /\ UNCHANGED NotEB

\* Line 116: the predicate holds and flush returns (the unique_lock unlocks),
\* or the thread goes on to block.
FlushPred(c) ==
    /\ eb_cpc[c] = "f_pred"
    /\ IF FlushPredicate
       THEN /\ eb_mutex' = NoOne
            /\ eb_cpc' = [eb_cpc EXCEPT ![c] = "idle"]
       ELSE /\ eb_cpc' = [eb_cpc EXCEPT ![c] = "f_wait"]
            /\ UNCHANGED eb_mutex
    /\ UNCHANGED <<eb_async, eb_shutdown, eb_queue, eb_cv, eb_joinable, eb_dpc,
                   eb_devent, eb_calls, eb_pushed, eb_mine, eb_done>>
    /\ UNCHANGED ebregvars
    /\ UNCHANGED NotEB

FlushWait(c) ==
    /\ eb_cpc[c] = "f_wait"
    /\ eb_mutex' = NoOne
    /\ eb_cv' = eb_cv \cup {Client(c)}
    /\ eb_cpc' = [eb_cpc EXCEPT ![c] = "f_blocked"]
    /\ UNCHANGED <<eb_async, eb_shutdown, eb_queue, eb_joinable, eb_dpc,
                   eb_devent, eb_calls, eb_pushed, eb_mine, eb_done>>
    /\ UNCHANGED ebregvars
    /\ UNCHANGED NotEB

\* ---- set_async_mode (lines 105-110), start_worker_thread (119-121) ----

SetAsyncStoreDrops(b) ==
    /\ eb_cpc[Owner] = "idle"
    /\ eb_async # b
    /\ eb_async' = b
    /\ eb_queue' = IF b THEN eb_queue ELSE <<>>
    /\ eb_cpc' = [eb_cpc EXCEPT ![Owner] = IF b THEN "s_start" ELSE "idle"]
    /\ UNCHANGED <<eb_shutdown, eb_mutex, eb_cv, eb_joinable, eb_dpc,
                   eb_devent, eb_calls, eb_pushed, eb_mine, eb_done>>
    /\ UNCHANGED ebregvars
    /\ UNCHANGED NotEB

\* Line 106: async_mode_.store(async).
SetAsyncStore(b) ==
    /\ eb_cpc[Owner] = "idle"
    /\ eb_async # b
    /\ eb_async' = b
    /\ eb_cpc' = [eb_cpc EXCEPT ![Owner] = IF b THEN "s_start" ELSE "idle"]
    /\ UNCHANGED <<eb_shutdown, eb_queue, eb_mutex, eb_cv, eb_joinable, eb_dpc,
                   eb_devent, eb_calls, eb_pushed, eb_mine, eb_done>>
    /\ UNCHANGED ebregvars
    /\ UNCHANGED NotEB

\* Lines 107-109: start the dispatcher thread unless one is joinable.
SetAsyncStart ==
    /\ eb_cpc[Owner] = "s_start"
    /\ IF ~eb_joinable
       THEN /\ eb_joinable' = TRUE
            /\ eb_dpc' = "lock"
       ELSE UNCHANGED <<eb_joinable, eb_dpc>>
    /\ eb_cpc' = [eb_cpc EXCEPT ![Owner] = "idle"]
    /\ UNCHANGED <<eb_async, eb_shutdown, eb_queue, eb_mutex, eb_cv, eb_devent,
                   eb_calls, eb_pushed, eb_mine, eb_done>>
    /\ UNCHANGED ebregvars
    /\ UNCHANGED NotEB

\* ---- set_async_mode called by any thread ----

\* Line 106: async_mode_.store(async); the call goes on to line 107 only for
\* async = true.
SetAsyncCall(c, b) ==
    /\ eb_cpc[c] = "idle"
    /\ eb_async' = b
    /\ eb_cpc' = [eb_cpc EXCEPT ![c] = IF b THEN "s_test" ELSE "idle"]
    /\ UNCHANGED <<eb_shutdown, eb_queue, eb_mutex, eb_cv, eb_joinable, eb_dpc,
                   eb_devent, eb_calls, eb_pushed, eb_mine, eb_done>>
    /\ UNCHANGED ebregvars
    /\ UNCHANGED NotEB

\* Line 107: !worker_thread_.joinable(), read without any lock.
SetAsyncTest(c) ==
    /\ eb_cpc[c] = "s_test"
    /\ eb_cpc' = [eb_cpc EXCEPT ![c] = IF ~eb_joinable THEN "s_spawn" ELSE "idle"]
    /\ UNCHANGED <<eb_async, eb_shutdown, eb_queue, eb_mutex, eb_cv, eb_joinable,
                   eb_dpc, eb_devent, eb_calls, eb_pushed, eb_mine, eb_done>>
    /\ UNCHANGED ebregvars
    /\ UNCHANGED NotEB

\* Line 120, right-hand side: std::thread(&EventBus::worker_loop, this)
\* starts a thread.  eb_dpc follows the first thread started; a thread
\* started while that one exists is counted only.
SetAsyncSpawn(c) ==
    /\ eb_cpc[c] = "s_spawn"
    /\ eb_cpc' = [eb_cpc EXCEPT ![c] = "s_assign"]
    /\ eb_dpc' = IF eb_dpc = "none" THEN "lock" ELSE eb_dpc
    /\ UNCHANGED <<eb_async, eb_shutdown, eb_queue, eb_mutex, eb_cv, eb_joinable,
                   eb_devent, eb_calls, eb_pushed, eb_mine, eb_done>>
    /\ UNCHANGED ebregvars
    /\ UNCHANGED NotEB

\* What the move assignment to worker_thread_ (line 120) comes to.  Onto a
\* handle that is joinable it calls std::terminate; where it races with the
\* assignment of another caller the earlier handle may be overwritten.
AssignOutcomes(joinable) ==
    IF joinable THEN {"terminate", "overwritten"} ELSE {"adopted"}

\* Line 120, the assignment, and the return of set_async_mode.
SetAsyncAssign(c) ==
    /\ eb_cpc[c] = "s_assign"
    /\ \E outcome \in AssignOutcomes(eb_joinable) :
         \/ /\ outcome = "adopted"
            /\ eb_joinable' = TRUE
            /\ eb_cpc' = [eb_cpc EXCEPT ![c] = "idle"]
            /\ UNCHANGED <<eb_dpc, eb_cv, eb_lost>>
         \/ /\ outcome = "terminate"
            /\ ProcessAborts
            /\ UNCHANGED <<eb_joinable, eb_lost>>
         \/ /\ outcome = "overwritten"
            /\ eb_lost < MaxLost
            /\ eb_lost' = eb_lost + 1
            /\ eb_cpc' = [eb_cpc EXCEPT ![c] = "idle"]
            /\ UNCHANGED <<eb_joinable, eb_dpc, eb_cv>>
    /\ UNCHANGED <<eb_async, eb_shutdown, eb_queue, eb_mutex, eb_devent,
                   eb_calls, eb_pushed, eb_mine, eb_done>>
    /\ UNCHANGED ebregvars
    /\ UNCHANGED NotBus

\* ---- shutdown (lines 123-133) ----

\* Lines 123-125: shutdown() is called and takes queue_mutex_.
ShutdownLock ==
    /\ eb_cpc[Owner] = "idle"
    /\ eb_mutex = NoOne
    /\ eb_mutex' = Client(Owner)
    /\ eb_cpc' = [eb_cpc EXCEPT ![Owner] = "sh_set"]
    /\ eb_atShutdown' = {eb_queue[i] : i \in 1..Len(eb_queue)}
    /\ UNCHANGED <<eb_async, eb_shutdown, eb_queue, eb_cv, eb_joinable, eb_dpc,
                   eb_devent, eb_calls, eb_pushed, eb_mine, eb_done>>
    /\ UNCHANGED <<eb_handlers, eb_hreaders, eb_hwriter, eb_subs, eb_etype, eb_ptype,
                   eb_harg, eb_di, eb_ran>>
    /\ UNCHANGED NotEB

\* Lines 126-127.
ShutdownSet ==
    /\ eb_cpc[Owner] = "sh_set"
    /\ eb_shutdown' = TRUE
    /\ eb_mutex' = NoOne
    /\ eb_cpc' = [eb_cpc EXCEPT ![Owner] = "sh_notify"]
    /\ UNCHANGED <<eb_async, eb_queue, eb_cv, eb_joinable, eb_dpc, eb_devent,
                   eb_calls, eb_pushed, eb_mine, eb_done>>
    /\ UNCHANGED ebregvars
    /\ UNCHANGED NotEB

\* Line 128: queue_cv_.notify_one().
ShutdownNotify ==
    /\ eb_cpc[Owner] = "sh_notify"
    /\ \E woken \in NotifyOne(eb_cv) :
         /\ EBWake(woken)
         /\ EBWakeClients(woken, Owner, "sh_join")
    /\ UNCHANGED <<eb_async, eb_shutdown, eb_queue, eb_mutex, eb_joinable,
                   eb_devent, eb_calls, eb_pushed, eb_mine, eb_done>>
    /\ UNCHANGED ebregvars
    /\ UNCHANGED NotEB

\* The test of line 130.
JoinAlways == TRUE

JoinNeeded == eb_joinable

\* Lines 130-133: join the dispatcher thread if there is one, and return.
ShutdownJoin ==
    /\ eb_cpc[Owner] = "sh_join"
    /\ IF JoinNeeded
       THEN /\ eb_dpc = "exited"
            /\ eb_joinable' = FALSE
            /\ eb_dpc' = "none"
       ELSE UNCHANGED <<eb_joinable, eb_dpc>>
    /\ eb_cpc' = [eb_cpc EXCEPT ![Owner] = "idle"]
    /\ eb_atShutdown' = {}
    /\ UNCHANGED <<eb_async, eb_shutdown, eb_queue, eb_mutex, eb_cv, eb_devent,
                   eb_calls, eb_pushed, eb_mine, eb_done>>
    /\ UNCHANGED <<eb_handlers, eb_hreaders, eb_hwriter, eb_subs, eb_etype, eb_ptype,
                   eb_harg, eb_di, eb_ran>>
    /\ UNCHANGED NotEB

\* ---- a handler that calls back into the bus ----

\* Lines 150, 189 and 74, 80: the handler the loop of thread th calls is one
\* whose body calls subscribe() or unsubscribe() on this bus.  The call
\* arrives at the lock_guard of handlers_mutex_ while th itself holds the
\* mutex shared, so HExclusiveFree cannot become true for it: the thread
\* stays at the lock_guard, inside the handler, inside the dispatch.
HandlerMutates(th) ==
    /\ IF th = Dispatcher THEN eb_dpc = "d_loop" ELSE eb_cpc[th[2]] = "p_loop"
    /\ ~LoopDone(th)
    /\ eb_ran' = [eb_ran EXCEPT ![th] = Append(@, CurrentHandler(th))]
    /\ IF th = Dispatcher
       THEN /\ eb_dpc' = "d_hsub"
            /\ UNCHANGED eb_cpc
       ELSE /\ eb_cpc' = [eb_cpc EXCEPT ![th[2]] = "p_hsub"]
            /\ UNCHANGED eb_dpc
    /\ UNCHANGED <<eb_async, eb_shutdown, eb_queue, eb_mutex, eb_cv, eb_joinable,
                   eb_devent, eb_calls, eb_pushed, eb_mine, eb_done>>
    /\ UNCHANGED <<eb_handlers, eb_hreaders, eb_hwriter, eb_subs, eb_etype,
                   eb_ptype, eb_harg, eb_di, eb_atShutdown>>
    /\ UNCHANGED NotEB

DispStep ==
    \/ DispLock
    \/ DispPred
    \/ DispWait
    \/ DispDecide
    \/ DispPop
    \/ DispDispatchLock
    \/ DispHandler
    \/ DispDispatch
    \/ DispRelock

ClientStep(c) ==
    \/ PublishSync(c)
    \/ PublishHandler(c)
    \/ PublishReturn(c)
    \/ PublishRaised(c)
    \/ SubscribePush(c)
    \/ UnsubscribeErase(c)
    \/ PublishLock(c)
    \/ PublishPush(c)
    \/ PublishNotify(c)
    \/ FlushLock(c)
    \/ FlushPred(c)
    \/ FlushWait(c)

OwnerStep == SetAsyncStart \/ ShutdownSet \/ ShutdownNotify \/ ShutdownJoin

EBNext ==
    \/ DispStep
    \/ EBSpuriousWake
    \/ \E c \in Clients : PublishCall(c) \/ FlushCall(c) \/ ClientStep(c)
    \/ \E c \in Clients, type \in Types :
          SubscribeLock(c, type) \/ UnsubscribeLock(c, type)
    \/ \E b \in BOOLEAN : SetAsyncStore(b)
    \/ ShutdownLock
    \/ OwnerStep

(***************************************************************************)
(* Specifications                                                          *)
(***************************************************************************)

Init == TPInit /\ LFInit /\ EBInit /\ MPInit /\ HPInit /\ CfgInit

TPSpec == Init /\ [][TPNext]_vars

\* Scheduling: a worker, a call in progress and a destructor in progress take
\* their steps, and a thread that keeps finding the mutex free at times
\* eventually gets it.  No fairness is assumed of spurious wakeups, of the
\* start of a new enqueue() call nor of the start of the destructor.
TPFairness ==
    /\ \A w \in Workers :
         /\ SF_vars(WorkerLock(w))
         /\ WF_vars(WorkerPred(w) \/ WorkerWait(w) \/ WorkerDecide(w) \/ WorkerRun(w))
    /\ \A p \in Producers :
         /\ SF_vars(EnqueueLock(p))
         /\ WF_vars(EnqueueCheck(p) \/ EnqueuePush(p) \/ EnqueueNotify(p))
    /\ WF_vars(DtorNotify \/ DtorJoin)

TPFairSpec == TPSpec /\ TPFairness

LFSpec == Init /\ [][LFNext]_vars

MPSpec == Init /\ [][MPNext]_vars

HPSpec == Init /\ [][HPNext]_vars

CfgSpec == Init /\ [][CfgNext]_vars

\* Scheduling: a thread inside allocate() or deallocate() takes its next step.
\* Nothing is assumed of the start of a call, and nothing of which way a
\* compare_exchange_weak goes.
LFFairness ==
    \A t \in Threads :
        /\ WF_vars(AllocReadNext(t) \/ AllocNew(t) \/ DeallocStoreNext(t))
        /\ WF_vars(AllocCasSuccess(t) \/ AllocCasFail(t))
        /\ WF_vars(DeallocCasSuccess(t) \/ DeallocCasFail(t))

LFFairSpec == LFSpec /\ LFFairness

EBSpec == Init /\ [][EBNext]_vars

\* Scheduling: a call in progress and the dispatcher take their steps, and a
\* thread that keeps finding the mutex free at times eventually gets it.  No
\* fairness is assumed of spurious wakeups nor of the start of a new call.
EBFairness ==
    /\ SF_vars(DispLock) /\ SF_vars(DispRelock)
    /\ WF_vars(DispPred \/ DispWait \/ DispDecide \/ DispPop \/ DispDispatch)
    /\ SF_vars(DispDispatchLock) /\ WF_vars(DispHandler)
    /\ \A c \in Clients :
         /\ SF_vars(PublishLock(c)) /\ SF_vars(FlushLock(c))
         /\ SF_vars(PublishSync(c))
         /\ WF_vars(PublishPush(c) \/ PublishNotify(c) \/ FlushPred(c) \/ FlushWait(c))
         /\ WF_vars(PublishHandler(c) \/ PublishReturn(c) \/ PublishRaised(c)
                      \/ SubscribePush(c) \/ UnsubscribeErase(c))
    /\ WF_vars(OwnerStep)

EBFairSpec == EBSpec /\ EBFairness

\* The bus while nobody subscribes: every handler list stays empty, so a
\* dispatch runs no handler.  The queue, the condition variable, the
\* dispatcher thread and every call but subscribe/unsubscribe are as in EBNext.
EBQueueNext ==
    \/ DispLock \/ DispPred \/ DispWait \/ DispDecide \/ DispPop
    \/ DispDispatchLock \/ DispDispatch \/ DispRelock
    \/ EBSpuriousWake
    \/ \E c \in Clients :
          \/ PublishCall(c) \/ PublishSync(c) \/ PublishReturn(c)
          \/ PublishLock(c) \/ PublishPush(c) \/ PublishNotify(c)
          \/ FlushCall(c) \/ FlushLock(c) \/ FlushPred(c) \/ FlushWait(c)
    \/ \E b \in BOOLEAN : SetAsyncStore(b)
    \/ ShutdownLock
    \/ OwnerStep

\* The bus with handlers that call subscribe() or unsubscribe().
EBReentrantNext ==
    \/ EBNext
    \/ \E th \in EBThreads : HandlerMutates(th)

EBReentrantSpec == Init /\ [][EBReentrantNext]_vars

\* The bus while nobody subscribes and any thread calls set_async_mode().
EBModeNext ==
    \/ DispLock \/ DispPred \/ DispWait \/ DispDecide \/ DispPop
    \/ DispDispatchLock \/ DispDispatch \/ DispRelock
    \/ EBSpuriousWake
    \/ \E c \in Clients :
          \/ PublishCall(c) \/ PublishSync(c) \/ PublishReturn(c)
          \/ PublishLock(c) \/ PublishPush(c) \/ PublishNotify(c)
          \/ FlushCall(c) \/ FlushLock(c) \/ FlushPred(c) \/ FlushWait(c)
          \/ SetAsyncTest(c) \/ SetAsyncSpawn(c) \/ SetAsyncAssign(c)
    \/ \E c \in Clients, b \in BOOLEAN : SetAsyncCall(c, b)
    \/ ShutdownLock \/ ShutdownSet \/ ShutdownNotify \/ ShutdownJoin

EBModeSpec == Init /\ [][EBModeNext]_vars

EBQueueSpec == Init /\ [][EBQueueNext]_vars

EBQueueFairSpec == EBQueueSpec /\ EBFairness

(***************************************************************************)
(* ThreadPool: properties                                                  *)
(***************************************************************************)

Accepted == 1..tp_accepted

Resolved(t) == tp_future[t] \in Outcomes

LiveWorkers == {w \in Workers : tp_wpc[w] \notin {"exited", "terminated"}}

RECURSIVE SumExecs(_)
SumExecs(n) == IF n = 0 THEN 0 ELSE tp_execs[n] + SumExecs(n - 1)

\* C2: every accepted task's future eventually becomes ready, and once it
\* holds an outcome (the value or the failure) that outcome never changes.
C2_TaskLiveness ==
    /\ \A t \in TaskIds : (t \in Accepted) ~> Resolved(t)
    /\ [][\A t \in TaskIds : Resolved(t) => tp_future'[t] = tp_future[t]]_vars

C2_Witness ==
    /\ tp_accepted >= 2
    /\ \A t \in Accepted : Resolved(t)
    /\ \E t1, t2 \in Accepted : tp_future[t1] = "value" /\ tp_future[t2] = "failure"

\* C3: no accepted task is invoked more than once, no task id is taken from
\* the queue twice, and when all N accepted tasks have resolved exactly N
\* invocations have happened.
C3_AtMostOnce ==
    /\ \A t \in TaskIds : tp_execs[t] <= 1
    /\ \A i, j \in 1..Len(tp_dequeued) : i # j => tp_dequeued[i] # tp_dequeued[j]
    /\ \A w1, w2 \in Workers :
         (w1 # w2 /\ tp_wtask[w1] # 0) => tp_wtask[w1] # tp_wtask[w2]
    /\ (\A t \in Accepted : Resolved(t)) => SumExecs(MaxEnqueues) = tp_accepted

C3_Witness ==
    /\ \A w \in Workers : tp_wpc[w] = "run"
    /\ \A t \in Accepted : ~Resolved(t)

\* C4: once the destructor has stored stop_ and notified all workers, every
\* worker eventually leaves its loop and every join completes.
C4_ShutdownTerminates == (tp_dpc = "join") ~> (tp_dpc = "done")

\* C5: a worker leaves its loop only with stop_ set and tasks_ empty, and when
\* the destructor returns every task that was queued when stop_ was stored
\* (indeed every accepted task) has been executed and tasks_ is empty.
C5_ShutdownDrains ==
    /\ [](tp_dpc = "done" =>
            /\ tp_tasks = <<>>
            /\ \A i \in 1..Len(tp_atStop) : tp_execs[tp_atStop[i]] = 1
            /\ \A t \in Accepted : tp_execs[t] = 1)
    /\ [][\A w \in Workers :
            (tp_wpc[w] # "exited" /\ tp_wpc'[w] = "exited")
                => (tp_stop /\ tp_tasks = <<>> /\ tp_tasks' = <<>>)]_vars

C5_Witness ==
    /\ tp_dpc = "done"
    /\ Len(tp_atStop) >= 2

\* C6: an enqueue() call that begins after stop_ was stored is never accepted
\* and its rejection leaves tasks_ unchanged; a call is rejected only with
\* stop_ set; a call that is not rejected appends exactly one task.
Rejected ==
    tp_calls - tp_accepted
        - Cardinality({p \in Producers : tp_ppc[p] \in {"lock", "check", "push"}})

C6_SubmissionGate ==
    /\ [](/\ Rejected >= 1 => tp_stop
          /\ \A p \in Producers :
               tp_pafter[p] => tp_ppc[p] \notin {"push", "notify"})
    /\ [][\A p \in Producers :
            /\ (tp_ppc[p] = "check" /\ tp_ppc'[p] = "idle")
                 => (tp_stop /\ tp_tasks' = tp_tasks /\ tp_accepted' = tp_accepted)
            /\ (tp_ppc[p] = "check" /\ tp_ppc'[p] = "push") => ~tp_stop
            /\ (tp_ppc[p] = "push" /\ tp_ppc'[p] # "push")
                 => (/\ Len(tp_tasks') = Len(tp_tasks) + 1
                     /\ SubSeq(tp_tasks', 1, Len(tp_tasks)) = tp_tasks
                     /\ tp_accepted' = tp_accepted + 1)]_vars

C6_Witness ==
    /\ Rejected >= 1
    /\ tp_accepted >= 1
    /\ \A p \in Producers : tp_ppc[p] = "idle"

\* C7: tasks leave the queue in exactly the order in which they were appended
\* (task ids number the appends).
C7_Fifo == \A i \in 1..Len(tp_dequeued) : tp_dequeued[i] = i

C7_Witness ==
    /\ Len(tp_dequeued) >= 2
    /\ \A w \in Workers : tp_wpc[w] = "run"

\* C8: a failure raised by a callable is stored in that task's future, never
\* leaves the worker, and the worker that ran it is back in its loop, so the
\* set of live workers is unchanged by it.
C8_FailureContained ==
    /\ [](/\ \A w \in Workers : tp_wpc[w] # "terminated"
          /\ \A t \in TaskIds : tp_execs[t] >= 1 => Resolved(t))
    /\ [][\A t \in TaskIds :
            (tp_future[t] = "pending" /\ tp_future'[t] = "failure")
                => /\ LiveWorkers' = LiveWorkers
                   /\ \E w \in Workers :
                        tp_wpc[w] = "run" /\ tp_wtask[w] = t /\ tp_wpc'[w] = "lock"]_vars

C8_Witness ==
    \E w \in Workers, t \in Accepted :
        /\ tp_wfailed[w]
        /\ tp_wpc[w] = "run"
        /\ tp_future[t] = "failure"

(***************************************************************************)
(* LockFreeMemoryPool: properties                                          *)
(***************************************************************************)

LiveCount(n) == SumThreads(n, LFThreads)

\* C1: no two allocations that are live at the same time point at the same
\* node, and no live allocation is the null pointer.
C1_NoDoubleIssue == \A n \in Nodes : LiveCount(n) <= 1

\* The nodes met walking from head_ along next, at most k of them.
RECURSIVE LFChain(_, _)
LFChain(n, k) ==
    IF n = Null \/ k = 0 THEN <<>> ELSE <<n>> \o LFChain(lf_next[n], k - 1)

FreeList == LFChain(lf_head, lf_created + 1)

OnFreeList(n) == \E i \in 1..Len(FreeList) : FreeList[i] = n

\* C19: every node that no caller holds and no deallocate() in progress is
\* about to push is reachable from head_: no deallocated node is dropped.
C19_Recycling ==
    \A n \in 1..lf_created :
        (LiveCount(n) = 0 /\ \A t \in Threads : lf_node[t] # n) => OnFreeList(n)

\* C20: the walk from head_ ends at nullptr without meeting a node twice, and
\* no node on it is held by a caller.
C20_FreelistWellFormed ==
    /\ Len(FreeList) <= lf_created
    /\ \A i, j \in 1..Len(FreeList) : i # j => FreeList[i] # FreeList[j]
    /\ \A i \in 1..Len(FreeList) : LiveCount(FreeList[i]) = 0

(***************************************************************************)
(* EventBus: properties                                                    *)
(***************************************************************************)

Dispatched == {eb_done[i] : i \in 1..Len(eb_done)}

DispatcherRunning == eb_dpc \notin {"none", "exited", "aborted"}

\* std::terminate has ended the process.
ProcessAborted == eb_dpc = "aborted"

\* C9: when a flush() that waited on the queue returns, the dispatch of every
\* event its caller had published asynchronously before has finished, and
\* those dispatches finished in the order of publication.
C9_FlushGuarantee ==
    [][\A c \in Clients :
         (eb_cpc[c] = "f_pred" /\ eb_cpc'[c] = "idle")
            => /\ eb_mine[c] \subseteq Dispatched
               /\ \A i, j \in 1..Len(eb_done) : i < j => eb_done[i] < eb_done[j]]_vars

\* C10: a flush() that found the queue non-empty, in asynchronous mode with
\* the dispatcher running and no shutdown requested, eventually returns
\* (unless the mode is switched off or shutdown is requested meanwhile).
C10_FlushTerminates ==
    \A c \in Clients :
        (eb_cpc[c] = "f_wait" /\ eb_async /\ DispatcherRunning /\ ~eb_shutdown)
            ~> (eb_cpc[c] = "idle" \/ ~eb_async \/ eb_shutdown \/ ProcessAborted)

\* C11: the dispatcher finishes the dispatch of the events in exactly the
\* order in which they were appended to event_queue_ (the k-th event appended
\* is the k-th whose dispatch finishes), and the event whose dispatch is in
\* progress is the one appended right after all those already finished.
C11_AsyncFifo ==
    /\ \A i \in 1..Len(eb_done) : eb_done[i] = i
    /\ eb_devent # 0 => eb_devent = Len(eb_done) + 1

\* Two publishers have each appended an event and both dispatches are over.
C11_Witness ==
    /\ Len(eb_done) >= 2
    /\ \A c \in Clients : eb_mine[c] # {}

InQueue(e) == \E i \in 1..Len(eb_queue) : eb_queue[i] = e

\* C12: an event that is in the queue while asynchronous mode is on, the
\* dispatcher is running and no shutdown is requested is eventually
\* dispatched.
C12_AsyncDelivery ==
    \A e \in 1..MaxPublish :
        (InQueue(e) /\ eb_async /\ DispatcherRunning /\ ~eb_shutdown)
            ~> (e \in Dispatched \/ ProcessAborted)

\* C13: a synchronous publish ends only by returning, and when it returns the
\* handlers it has invoked are exactly the handlers registered for the type
\* of the event, each once, in subscription order.
C13_SyncDispatch ==
    [][\A c \in Clients :
          (eb_cpc[c] = "p_loop" /\ eb_cpc'[c] # "p_loop")
              => /\ eb_cpc'[c] = "idle"
                 /\ eb_ran[Client(c)] = eb_handlers[eb_ptype[c]]]_vars

\* C14: the failure of a handler never reaches the publisher and never stops
\* the dispatcher thread.
C14_FailureIsolation ==
    /\ \A c \in Clients : eb_cpc[c] # "p_raised"
    /\ ~ProcessAborted

ShutdownReturns == eb_cpc[Owner] = "sh_join" /\ eb_cpc'[Owner] = "idle"

\* C15: when shutdown() returns, every event that was in the queue when it
\* was called has been dispatched and no dispatcher thread is left; the
\* dispatcher leaves its loop only with shutdown requested and the queue empty.
C15_ShutdownDrains ==
    [][/\ ShutdownReturns => (eb_atShutdown \subseteq Dispatched /\ eb_dpc' = "none")
       /\ (eb_dpc # "exited" /\ eb_dpc' = "exited")
              => (eb_shutdown /\ eb_queue = <<>>)]_vars

\* C16: a shutdown() that has requested the shutdown of a running dispatcher
\* eventually returns.
C16_ShutdownTerminates ==
    (eb_cpc[Owner] = "sh_notify" /\ DispatcherRunning)
        ~> (eb_cpc[Owner] = "idle" \/ ProcessAborted)

InShutdown == eb_cpc[Owner] \in {"sh_set", "sh_notify", "sh_join"}

\* C17: in a shutdown() call made with the shutdown already requested and the
\* dispatcher stopped, no step of the call changes the registry, the queue,
\* the mode flag, the shutdown flag or the stopped dispatcher, and the call
\* does not wait at the join.
C17_ShutdownIdempotent ==
    [][(eb_shutdown /\ ~eb_joinable)
          => /\ ((InShutdown \/ InShutdown') /\ eb_cpc'[Owner] # eb_cpc[Owner])
                    => UNCHANGED <<eb_handlers, eb_queue, eb_async, eb_shutdown,
                                   eb_joinable, eb_dpc>>
             /\ eb_cpc[Owner] = "sh_join" => ENABLED ShutdownJoin]_vars

\* The second shutdown() is at its join, after a first one joined a
\* dispatcher that had dispatched events.
C17_Witness ==
    /\ eb_cpc[Owner] = "sh_join"
    /\ ~eb_joinable
    /\ eb_done # <<>>

InSomeList(h) ==
    \E t \in Types : \E i \in 1..Len(eb_handlers[t]) : eb_handlers[t][i] = h

\* Handlers that were registered and have been removed by an unsubscribe.
Removed ==
    {h \in 1..eb_subs : ~InSomeList(h) /\ \A c \in Clients : eb_harg[c] # h}

\* C18: unsubscribe<T>() empties the handler list of T and leaves the lists of
\* all other types as they were, and no dispatch invokes a handler that an
\* unsubscribe has removed.
C18_Unsubscribe ==
    [][/\ \A c \in Clients :
            (eb_cpc[c] = "unsub_erase" /\ eb_cpc'[c] = "idle")
                => /\ eb_handlers'[eb_ptype[c]] = <<>>
                   /\ \A t \in Types \ {eb_ptype[c]} :
                         eb_handlers'[t] = eb_handlers[t]
       /\ \A th \in EBThreads :
            Len(eb_ran'[th]) > Len(eb_ran[th])
                => eb_ran'[th][Len(eb_ran'[th])] \notin Removed]_vars

\* A type lost its handler to an unsubscribe while another type kept one,
\* and a dispatch has invoked a handler since.
C18_Witness ==
    /\ Removed # {}
    /\ \E t \in Types : eb_handlers[t] # <<>>
    /\ \E th \in EBThreads : eb_ran[th] # <<>>

(***************************************************************************)
(* LockFreeMemoryPool: progress and growth                                 *)
(***************************************************************************)

\* A call of allocate() or deallocate() begins.
LFCallStarts == \E t \in Threads : AllocLoad(t) \/ DeallocLoad(t)

\* A compare_exchange_weak fails although head_ holds the expected value.
SpuriousFailure ==
    \E t \in Threads :
        /\ AllocCasFail(t) \/ DeallocCasFail(t)
        /\ lf_head = lf_old_head[t]

\* The call of thread t is over, or it waits for `new Node` where the model
\* has no node left to make.
LFCallOver(t) ==
    \/ lf_pc[t] = "idle"
    \/ lf_pc[t] = "a_new" /\ lf_created = LFMaxNodes

\* C21 as stated: a compare-and-swap of a retry loop fails only when head_
\* no longer holds the value the thread loaded, that is when another thread's
\* operation on head_ has succeeded in between.
C21_FailureMeansContention ==
    [][\A t \in Threads :
         (/\ lf_pc[t] \in {"a_cas", "d_cas"}
          /\ lf_pc'[t] \in {"a_test", "d_store"})
         => lf_head # lf_old_head[t]]_vars

\* C21 amended: when only finitely many calls begin and compare_exchange_weak
\* fails spuriously only finitely often, every call of allocate() and of
\* deallocate() eventually completes: the threads cannot retry forever.
C21_LockFree ==
    \A t \in Threads :
        (<>[][~LFCallStarts]_vars /\ <>[][~SpuriousFailure]_vars)
        => (lf_pc[t] # "idle" ~> LFCallOver(t))

\* A thread has failed a compare-and-swap because another thread's operation
\* moved head_, and is about to retry.
C21_Witness ==
    \E t \in Threads :
        /\ lf_pc[t] \in {"a_cas", "d_cas"}
        /\ lf_head # lf_old_head[t]

\* C22: an allocate() that observed an empty freelist has no step that waits:
\* it returns a node made on the spot, which did not exist before and is in
\* nobody's hands, and every completed allocate() hands out exactly one node,
\* never null.
C22_GrowthOnDemand ==
    [][\A t \in Threads :
         /\ (lf_pc[t] = "a_test" /\ lf_old_head[t] = Null /\ lf_pc'[t] # "a_test")
            => lf_pc'[t] = "a_new"
         /\ (lf_pc[t] = "a_new" /\ lf_created < LFMaxNodes) => ENABLED AllocNew(t)
         /\ (lf_pc[t] = "a_new" /\ lf_pc'[t] = "idle")
            => /\ lf_created' > lf_created
               /\ lf_held' = [lf_held EXCEPT ![t][lf_created'] = 1]
               /\ LiveCount(lf_created') = 0
         /\ (lf_pc[t] \in {"a_cas", "a_new"} /\ lf_pc'[t] = "idle")
            => /\ HeldBy(t)' = HeldBy(t) + 1
               /\ \E n \in Nodes : n # Null /\ lf_held'[t][n] = lf_held[t][n] + 1]_vars

\* A thread holds a node that was made by an allocate() on an empty freelist.
C22_Witness ==
    /\ lf_created > LFInitialSize
    /\ lf_head = Null
    /\ \E t \in Threads : lf_held[t][lf_created] = 1

(***************************************************************************)
(* MemoryPool                                                              *)
(***************************************************************************)

\* The step is a call of allocate() that returned a pointer.
AllocateReturned == mp_last'[1] = "allocate" /\ mp_last'[2] = "returned"

\* The step is a call of deallocate(ptr) that ended the given way: "returned"
\* for a pointer that is not null, "ignored" for the null pointer.
DeallocateOf(ending) == mp_last'[1] = "deallocate" /\ mp_last'[2] = ending

\* Slots taken from the freelist and not in it: the live ones and the one a
\* construct() in progress is filling.
Outstanding == Cardinality(mp_live) + (IF mp_pc = "constructing" THEN 1 ELSE 0)

\* C23 as stated: every allocate() lowers available() by exactly 1 and every
\* deallocate() of a non-null pointer raises it by exactly 1.
C23_Accounting ==
    [][/\ AllocateReturned => Available' = Available - 1
       /\ DeallocateOf("returned") => Available' = Available + 1]_vars

\* C23 amended: an allocate() made while a slot is free lowers available() by
\* exactly 1, one made while none is free adds a block and leaves
\* available() at objects_per_block - 1; a deallocate() of a non-null pointer
\* raises it by exactly 1 and one of the null pointer leaves it alone; as long
\* as only pointers the caller holds are given back, available() is
\* capacity() less the slots taken and not given back, so giving back what
\* was allocated restores available() up to the blocks added in between.
C23_AccountingWithGrowth ==
    /\ [][/\ AllocateReturned =>
              Available' = (IF Available > 0 THEN Available - 1
                                             ELSE MPObjectsPerBlock - 1)
          /\ DeallocateOf("returned") => Available' = Available + 1
          /\ DeallocateOf("ignored") => Available' = Available]_vars
    /\ [](mp_misused = 0 => Available + Outstanding = Capacity)

\* Everything allocated has been given back after the pool added a block.
C23_Witness ==
    /\ mp_last = <<"deallocate", "returned">>
    /\ mp_misused = 0
    /\ mp_live = {}
    /\ mp_blocks > 1
    /\ Available = Capacity

\* C24 as stated: available() never exceeds capacity(), whatever the calls,
\* and a pool nothing was called on has available() = capacity() > 0.
C24_Bound ==
    /\ Available <= Capacity
    /\ mp_last[1] = "none" => (Available = Capacity /\ Capacity > 0)

\* C24 amended: the same, for callers that give back only null or pointers
\* they hold (got from this pool and not given back since).
C24_BoundForHeldPointers ==
    /\ mp_misused = 0 => Available <= Capacity
    /\ mp_last[1] = "none" => (Available = Capacity /\ Capacity > 0)

\* Every slot of a pool that has grown is free again, the last call being a
\* destroy() of a pointer the caller held.
C24_Witness ==
    /\ mp_misused = 0
    /\ mp_last = <<"destroy", "returned">>
    /\ mp_blocks > 1
    /\ Available = Capacity

\* C25: capacity() changes only in an allocate() or construct() made while
\* available() is 0, then by exactly one block of objects_per_block slots,
\* and it never goes down.
C25_GrowthRule ==
    [][/\ Capacity' >= Capacity
       /\ Capacity' # Capacity =>
            /\ mp_last'[1] \in {"allocate", "construct"}
            /\ Available = 0
            /\ Capacity' = Capacity + MPObjectsPerBlock
            /\ mp_blocks' = mp_blocks + 1]_vars

\* An allocate() on an exhausted freelist has added the second block.
C25_Witness ==
    /\ mp_last[1] = "allocate" /\ mp_last[2] = "returned"
    /\ mp_blocks = 2
    /\ Available = MPObjectsPerBlock - 1

\* C26: when the constructor raises inside construct(), the slot taken for
\* the object goes back to the freelist (available() is its value right
\* after the internal allocate() plus 1), the call ends with the failure and
\* the live slots are those of before the call; when it does not raise, the
\* slot is returned and becomes live.
C26_ConstructRollback ==
    [][mp_pc = "constructing" /\ mp_pc' = "idle" =>
         IF mp_last'[2] = "ctor_failed"
         THEN /\ Available' = Available + 1
              /\ mp_free'[Len(mp_free')] = mp_ptr
              /\ mp_live' = mp_live
         ELSE /\ mp_last' = <<"construct", "returned">>
              /\ Available' = Available
              /\ mp_live' = mp_live \cup {mp_ptr}]_vars

\* A construct() whose constructor raised has ended, on a pool with a live
\* object.
C26_Witness ==
    /\ mp_last[1] = "construct" /\ mp_last[2] = "ctor_failed"
    /\ mp_live # {}
    /\ mp_misused = 0

(***************************************************************************)
(* HighPriorityThreadPool                                                  *)
(***************************************************************************)

\* C27: whatever comes of the scheduling request and of the pinning request,
\* for every worker and every core count the platform reports, no worker is
\* lost before its loop: the requests are never fatal.
C27_BestEffort == \A w \in Workers : hp_wpc[w] # "killed"

(***************************************************************************)
(* Config                                                                  *)
(***************************************************************************)

\* C28: after save_to_file and load_from_file into an empty store, every key
\* has a value of the type it was saved with and equal to the saved one,
\* strings that read as a number or a boolean included.
C28_RoundTrip ==
    cfg_state = "loaded" => \A k \in CfgKeys : cfg_loaded[k] = cfg_saved[k]

(***************************************************************************)
(* ThreadPool: the lock and the tasks                                      *)
(***************************************************************************)

\* C29: a worker that runs a task does not hold queue_mutex_; while it runs,
\* a free mutex is there to take for every other worker on its way to
\* dequeue and for every producer on its way to enqueue.
C29_RunsUnlocked ==
    \A w \in Workers :
        tp_wpc[w] = "run" =>
            /\ tp_mutex # <<"w", w>>
            /\ tp_mutex = NoOne =>
                 /\ \A x \in Workers : tp_wpc[x] = "lock" => ENABLED WorkerLock(x)
                 /\ \A p \in Producers : tp_ppc[p] = "lock" => ENABLED EnqueueLock(p)

\* Both workers run a task at the same time: the second one was dequeued
\* while the first was running.
C29_Witness ==
    \E w, x \in Workers : w # x /\ tp_wpc[w] = "run" /\ tp_wpc[x] = "run"

\* C30: whenever a task is appended, also while the destructor is under way,
\* some worker is still in its loop, and when the last worker has left its
\* loop the queue is empty and every accepted task has been run once.
C30_NotStranded ==
    /\ [][\A p \in Producers :
            (tp_ppc[p] = "push" /\ tp_ppc'[p] = "notify") => LiveWorkers # {}]_vars
    /\ [](LiveWorkers = {} =>
            /\ tp_tasks = <<>>
            /\ \A t \in Accepted : tp_execs[t] = 1)

\* An enqueue() has passed the test of stop_ and is about to append, and the
\* destructor has stored stop_ in between.
C30_Witness ==
    \E p \in Producers :
        /\ tp_ppc[p] = "push"
        /\ tp_stop
        /\ tp_dpc = "notify"

(***************************************************************************)
(* EventBus: the registry and the two dispatch paths                       *)
(***************************************************************************)

\* The calls between lock_guard and return in subscribe and unsubscribe.
Mutating == {c \in Clients : eb_cpc[c] \in {"sub_push", "unsub_erase"}}

\* The threads between shared_lock and return in dispatch_event and
\* dispatch_polymorphic_event.
Dispatching ==
    {Client(c) : c \in {x \in Clients : eb_cpc[x] \in {"p_loop", "p_hsub"}}}
        \cup (IF eb_dpc \in {"d_loop", "d_hsub"} THEN {Dispatcher} ELSE {})

\* C31: while a subscribe or an unsubscribe is between taking and releasing
\* the registry lock no thread is inside a dispatch and no other mutation is
\* in progress, and the registry changes only in a step taken while no thread
\* is inside a dispatch; dispatches exclude only mutations, not each other.
C31_RegistryExclusion ==
    /\ [](/\ Cardinality(Mutating) <= 1
          /\ Mutating # {} => Dispatching = {})
    /\ [][eb_handlers' # eb_handlers => Dispatching = {} /\ Dispatching' = {}]_vars

\* Two threads are inside their handler loops at the same time, each with a
\* handler still to call.
C31_Witness ==
    \E a \in Dispatching, b \in Dispatching :
        /\ a # b
        /\ ~LoopDone(a)
        /\ ~LoopDone(b)

\* A mutation is in progress while another client is about to dispatch.
C31_WitnessMutation ==
    \E c \in Mutating : \E x \in Clients : eb_cpc[x] = "p_sync"

\* The threads whose handler has called subscribe() or unsubscribe() and is at
\* the lock_guard.
Reentered ==
    {Client(c) : c \in {x \in Clients : eb_cpc[x] = "p_hsub"}}
        \cup (IF eb_dpc = "d_hsub" THEN {Dispatcher} ELSE {})

\* C32: from one step of a dispatch to the next the handler list of the
\* dispatched type is the same; no subscribe or unsubscribe completes in a
\* step taken while a dispatch is in progress; and a subscribe or unsubscribe
\* called by a handler of the dispatch finds the registry lock held shared,
\* by its own thread, and stays at the lock for as long as the process runs.
C32_ListFixedDuringDispatch ==
    /\ [][\A th \in Dispatching \cap Dispatching' :
            HandlersOf(DispatchType(th))' = HandlersOf(DispatchType(th))]_vars
    /\ [][Mutating \ Mutating' # {} => Dispatching = {}]_vars
    /\ [](\A th \in Reentered : th \in eb_hreaders /\ ~HExclusiveFree)
    /\ [][~ProcessAborted' => Reentered \subseteq Reentered']_vars

\* A handler of a dispatch has called subscribe() or unsubscribe() while
\* another client is about to subscribe.
C32_Witness ==
    /\ Reentered # {}
    /\ \E c \in Clients : eb_cpc[c] = "idle" /\ eb_subs < MaxSubscribe

\* The calls that have started a thread and not yet assigned it to
\* worker_thread_.
Spawning == {c \in Clients : eb_cpc[c] = "s_assign"}

\* The threads started on worker_loop and not joined.
DispatcherThreads ==
    Cardinality(Spawning) + (IF eb_joinable THEN 1 ELSE 0) + eb_lost

\* C33: however set_async_mode, publish, flush and shutdown calls of several
\* threads interleave, at most one dispatcher thread exists.
C33_SingleDispatcher == DispatcherThreads <= 1

\* A step of set_async_mode: the store of the flag, or the start of the
\* dispatcher that ends the call.
ModeStep ==
    \/ eb_async' # eb_async
    \/ eb_cpc[Owner] = "s_start" /\ eb_cpc'[Owner] = "idle"

\* C34: a step of set_async_mode changes the mode flag, the position of its
\* caller and, where it starts the dispatcher, the thread handle and the
\* dispatcher's position, and nothing else: the queue keeps its contents and
\* order.  In either mode the queue changes only by an append at its tail or
\* by the dispatcher thread taking its front event.
C34_ModeToggleKeepsQueue ==
    /\ [][ModeStep =>
            /\ eb_queue' = eb_queue
            /\ UNCHANGED <<eb_shutdown, eb_mutex, eb_cv, eb_devent, eb_calls,
                           eb_pushed, eb_mine, eb_done, eb_lost>>
            /\ UNCHANGED ebregvars
            /\ \A c \in Clients \ {Owner} : eb_cpc'[c] = eb_cpc[c]
            /\ <<eb_joinable, eb_dpc>>' # <<eb_joinable, eb_dpc>> =>
                  /\ eb_async'
                  /\ <<eb_joinable, eb_dpc>> = <<FALSE, "none">>
                  /\ <<eb_joinable, eb_dpc>>' = <<TRUE, "lock">>]_vars
    /\ [][eb_queue' # eb_queue =>
            \/ eb_queue' = Append(eb_queue, eb_pushed + 1)
            \/ /\ eb_dpc = "inner"
               /\ eb_devent' = Head(eb_queue)
               /\ eb_queue' = Tail(eb_queue)]_vars

\* The mode is synchronous again, the dispatcher is dispatching an event
\* queued earlier and another is still in the queue.
C34_Witness ==
    /\ ~eb_async
    /\ eb_cpc[Owner] = "idle"
    /\ eb_dpc = "d_loop"
    /\ eb_queue # <<>>

\* The clients inside the asynchronous branch of publish (lines 87-93).
PublishingAsync == {c \in Clients : eb_cpc[c] \in {"p_lock", "p_push", "p_notify"}}

\* C35: a publish() that reads the mode flag as asynchronous takes the
\* queueing branch; in that branch the caller holds no registry lock, runs no
\* handler and never blocks on the condition variable; its steps need nothing
\* but the queue mutex; and between the call and the return the caller
\* changes the queue exactly once, by appending the copy, which carries the
\* type of the published event, at the tail.
C35_AsyncPublishQueues ==
    /\ [](\A c \in PublishingAsync :
             /\ Client(c) \notin eb_hreaders
             /\ Client(c) \notin eb_cv
             /\ eb_di[Client(c)] = 0
             /\ eb_ran[Client(c)] = <<>>
             /\ eb_cpc[c] = "p_lock" /\ eb_mutex = NoOne => ENABLED PublishLock(c)
             /\ eb_cpc[c] = "p_push" => ENABLED PublishPush(c)
             /\ eb_cpc[c] = "p_notify" => ENABLED PublishNotify(c))
    /\ [][\A c \in Clients :
            /\ (eb_cpc[c] = "idle" /\ eb_calls' # eb_calls /\ eb_ptype'[c] # NoType
                   /\ eb_async)
                  => eb_cpc'[c] = "p_lock"
            /\ (eb_cpc[c] = "p_lock" /\ eb_cpc'[c] # "p_lock")
                  => eb_cpc'[c] \in {"p_push", "aborted"} /\ eb_queue' = eb_queue
            /\ (eb_cpc[c] = "p_push" /\ eb_cpc'[c] # "p_push")
                  => \/ eb_cpc'[c] = "aborted" /\ eb_queue' = eb_queue
                     \/ /\ eb_cpc'[c] = "p_notify"
                        /\ eb_queue' = Append(eb_queue, eb_pushed')
                        /\ eb_pushed' = eb_pushed + 1
                        /\ eb_etype'[eb_pushed'] = eb_ptype[c]
            /\ (eb_cpc[c] = "p_notify" /\ eb_cpc'[c] # "p_notify")
                  => eb_cpc'[c] \in {"idle", "aborted"} /\ eb_queue' = eb_queue]_vars

\* A publish has returned while its event is still in the queue, behind an
\* event of another publisher.
C35_Witness ==
    \E c \in Clients :
        /\ eb_cpc[c] = "idle"
        /\ \E e \in eb_mine[c] : InQueue(e) /\ eb_queue[1] # e

\* The positions of a client inside the waiting part of flush (lines 115-116).
FlushWaitPath == {"f_lock", "f_pred", "f_wait", "f_blocked"}

\* C36: while the mode flag is synchronous no step takes an idle client into
\* the waiting part of flush(), whatever the queue holds, and a flush() call
\* made in that mode is a step that changes no variable.
C36_SyncFlushReturns ==
    /\ [][\A c \in Clients :
            (~eb_async /\ eb_cpc[c] = "idle") => eb_cpc'[c] \notin FlushWaitPath]_vars
    /\ [][\A c \in Clients : (~eb_async /\ FlushCall(c)) => UNCHANGED vars]_vars

\* The mode is synchronous, an event queued in asynchronous mode is still in
\* the queue and a client is free to call flush().
C36_Witness ==
    /\ ~eb_async
    /\ eb_queue # <<>>
    /\ \E c \in Clients : eb_cpc[c] = "idle" /\ ENABLED FlushCall(c)

\* The type of the event thread th is dispatching: the EventType of the
\* publish call, or the type the queued copy was made with.
EventTypeOf(th) ==
    IF th = Dispatcher THEN eb_etype[eb_devent] ELSE eb_ptype[th[2]]

ListedFor(type) == {HandlersOf(type)[i] : i \in 1..Len(HandlersOf(type))}

\* C37: a handler is in the list of one type only; the handlers a dispatch
\* has invoked are all in the list of the type of its event; a synchronous
\* publish of a type whose list is empty invokes nothing and does not end by
\* raising; and the registry changes only in the step that ends a subscribe
\* or an unsubscribe, never in a step of a publish or of the dispatcher.
C37_ExactTypeRouting ==
    /\ [](\A t \in Types, u \in Types :
             t # u => ListedFor(t) \cap ListedFor(u) = {})
    /\ [](\A th \in Dispatching :
             \A i \in 1..Len(eb_ran[th]) :
                 /\ eb_ran[th][i] \in ListedFor(EventTypeOf(th))
                 /\ \A u \in Types \ {EventTypeOf(th)} :
                        eb_ran[th][i] \notin ListedFor(u))
    /\ [](\A th \in Dispatching :
             ListedFor(EventTypeOf(th)) = {} => eb_ran[th] = <<>>)
    /\ [][\A c \in Clients :
            (eb_cpc[c] = "p_loop" /\ ListedFor(eb_ptype[c]) = {})
                => eb_cpc'[c] # "p_raised"]_vars
    /\ [][eb_handlers' # eb_handlers =>
            \E c \in Mutating : eb_cpc'[c] = "idle"]_vars

\* A dispatch has invoked a handler while the list of another type holds a
\* handler too.
C37_Witness ==
    \E th \in Dispatching :
        /\ eb_ran[th] # <<>>
        /\ \E u \in Types \ {EventTypeOf(th)} : ListedFor(u) # {}

\* A synchronous publish of a type without handlers is in its (empty) loop
\* while the other type has a handler.
C37_WitnessNoHandler ==
    \E c \in Clients :
        /\ eb_cpc[c] = "p_loop"
        /\ ListedFor(eb_ptype[c]) = {}
        /\ \E u \in Types : ListedFor(u) # {}

IsPrefix(s, t) == Len(s) <= Len(t) /\ s = SubSeq(t, 1, Len(s))

InTransit(n) == Cardinality({t \in Threads : lf_node[t] = n})

\* C39: the nodes the constructor made are all still there, and every node
\* made so far is in exactly one place: on the freelist, with one caller, or
\* inside the deallocate() call that is returning it.
C39_NodeLifetime ==
    /\ lf_created >= LFInitialSize
    /\ \A n \in 1..lf_created :
          (IF OnFreeList(n) THEN 1 ELSE 0) + LiveCount(n) + InTransit(n) = 1

\* The slots free_list_ holds.
FreeSlots == {mp_free[i] : i \in 1..Len(mp_free)}

\* The slots handed out: those the caller holds and the one construct() is
\* building its object in.
LiveSlots == mp_live \cup (IF mp_pc = "constructing" THEN {mp_ptr} ELSE {})

\* C40: as long as every pointer given back was a live pointer of this pool
\* (or null), no slot is both free and live, free_list_ holds no slot twice,
\* the free and the live slots together are the slots of the allocated
\* blocks, and an allocate() or construct() that returns a pointer returns
\* one that was not live.
C40_SlotPartition ==
    /\ [](mp_misused = 0 =>
             /\ FreeSlots \cap LiveSlots = {}
             /\ \A i, j \in 1..Len(mp_free) : i # j => mp_free[i] # mp_free[j]
             /\ FreeSlots \cup LiveSlots = 1..Capacity
             /\ Cardinality(FreeSlots) + Cardinality(LiveSlots) = Capacity)
    /\ [][(mp_misused = 0 /\ mp_last'[2] = "returned"
              /\ mp_last'[1] \in {"allocate", "construct"})
            => \E p \in 1..Capacity' :
                  /\ p \notin mp_live
                  /\ mp_live' = mp_live \cup {p}]_vars

\* After a deallocate and the growth of the pool an allocate has returned a
\* slot; there are free and live slots and no pointer was misused.
C40_Witness ==
    /\ mp_misused = 0
    /\ mp_last = <<"allocate", "returned">>
    /\ mp_blocks = MPMaxBlocks
    /\ mp_free # <<>>
    /\ Cardinality(mp_live) >= 2

====
